---------------------------- MODULE Spec2Model ----------------------------
(***************************************************************************)
(* Model of the report generators pdf_generator_v2.py (create_full_pdf)    *)
(* and pdf_generator.py (create_pdf): image-tag resolution, character      *)
(* wrapping, image scaling and the page/cursor state machine.              *)
(*                                                                         *)
(* Lengths are integers in hundredths of a point.  A string is a sequence  *)
(* of one-character strings; the Korean glyphs and markers of the source   *)
(* are written with ASCII names ("JE" for the syllable that starts a       *)
(* chapter title, "JANG" for the one that ends its number, "MARK" for one  *)
(* of the five subtitle markers both generators know, "MARK1" for one of   *)
(* the two only create_pdf knows, "K" for an ordinary full-width glyph).   *)
(***************************************************************************)
EXTENDS Integers, Sequences, FiniteSets, TLC

VARIABLES
    pc,           \* which operation the process is in
    tag_name,     \* find_image / find_image_by_tag: the tag looked up
    images_dict,  \* the pool in enumeration order (os.listdir / dict order)
    found,        \* index in images_dict of the returned asset, 0 for None
    text,         \* wrap_text: the string to wrap
    max_width,    \* wrap_text: the width limit
    lines,        \* wrap_text: the returned lines
    doc,          \* an assembly: the locals of create_full_pdf / create_pdf
    doc2,         \* a second assembly of the same input (SpecTwice)
    docx_paths,   \* create_pdf_from_files: the files, in the order supplied
    docx_contents,\* create_pdf_from_files: the (name, content) list built
    chapters,     \* create_full_pdf: the keys of chapters, in insertion order
    ch_nums,      \* create_full_pdf: the keys in the order the loop takes them
    fonts,        \* setup_fonts: the module's font globals and the last call
    batch,        \* process_batch: the rows, the loop position, results
    executor,     \* generate_all_chapters_parallel: tasks, chapters, progress
    threads       \* concurrent setup_fonts: each thread's position and locals

vars ==
    <<pc, tag_name, images_dict, found, text, max_width, lines, doc, doc2,
      docx_paths, docx_contents, chapters, ch_nums, fonts, batch, executor, threads>>

SetMax(S) == CHOOSE x \in S : \A z \in S : z <= x
SetMin(S) == CHOOSE x \in S : \A z \in S : x <= z
Min2(a, b) == IF a <= b THEN a ELSE b

Rep(c, n) == [i \in 1..n |-> c]

\* TRUE; TLC evaluates an operator's argument when it is first used, and a
\* loop over a long string must use its state before it goes on
Evaluated(v) == v = v

RECURSIVE Flatten(_)
Flatten(ss) == IF ss = <<>> THEN <<>> ELSE Head(ss) \o Flatten(Tail(ss))

(***************************************************************************)
(* Python string operations used by the source                             *)
(***************************************************************************)
\* t in s
IsSubstring(t, s) ==
    \E i \in 0..(Len(s) - Len(t)) : SubSeq(s, i + 1, i + Len(t)) = t

\* s.endswith(t)
EndsWith(s, t) ==
    Len(t) <= Len(s) /\ SubSeq(s, Len(s) - Len(t) + 1, Len(s)) = t

\* s.startswith(t)
StartsWith(s, t) ==
    Len(t) <= Len(s) /\ SubSeq(s, 1, Len(t)) = t

WhiteSpace == {" ", "\n"}

RECURSIVE LStrip(_)
LStrip(s) == IF s # <<>> /\ Head(s) \in WhiteSpace THEN LStrip(Tail(s)) ELSE s

RECURSIVE RStrip(_)
RStrip(s) ==
    IF s # <<>> /\ s[Len(s)] \in WhiteSpace
    THEN RStrip(SubSeq(s, 1, Len(s) - 1)) ELSE s

\* s.strip()
Strip(s) == RStrip(LStrip(s))

NotBlank(p) == Strip(p) # <<>>

\* read_docx: the stripped text of the paragraphs that are not blank
read_docx(paras) ==
    LET kept == SelectSeq(paras, NotBlank) IN
    [i \in 1..Len(kept) |-> Strip(kept[i])]

\* s.split('\n'): the characters are read in order (in halves, so that the
\* evaluation does not nest once per character); cur is the piece being
\* read, out the pieces closed by a newline
SplitStep(st, c) ==
    IF c = "\n" THEN [cur |-> <<>>, out |-> Append(st.out, st.cur)]
    ELSE [st EXCEPT !.cur = Append(@, c)]

RECURSIVE SplitFold(_, _, _, _)
SplitFold(st, s, lo, hi) ==
    IF Evaluated(st) /\ lo > hi THEN st
    ELSE IF lo = hi THEN SplitStep(st, s[lo])
    ELSE LET mid == (lo + hi) \div 2
         IN SplitFold(SplitFold(st, s, lo, mid), s, mid + 1, hi)

SplitLines(s) ==
    LET st == SplitFold([cur |-> <<>>, out |-> <<>>], s, 1, Len(s))
    IN Append(st.out, st.cur)

\* os.path.splitext(p)[0]: cut at the last dot, unless only dots precede it
splitext(p) ==
    LET D == {i \in 1..Len(p) : p[i] = "."} IN
    IF D = {} THEN p
    ELSE LET d == SetMax(D) IN
         IF \E i \in 1..(d - 1) : p[i] # "." THEN SubSeq(p, 1, d - 1) ELSE p

(***************************************************************************)
(* Image resolution.  A pool is the sequence of asset names in the order   *)
(* the loop enumerates them; the result is an index into it, 0 for None.   *)
(***************************************************************************)
\* pdf_generator_v2.py find_image: the condition tested on each filename
MatchV2(tag, filename) ==
    \/ tag = filename
    \/ tag = splitext(filename)
    \/ IsSubstring(tag, filename)

\* pdf_generator.py find_image_by_tag: the condition tested on each name
MatchV1(tag, img_name) ==
    \/ tag = img_name
    \/ tag = splitext(img_name)
    \/ IsSubstring(tag, img_name)
    \/ EndsWith(splitext(img_name), tag)

FirstIndex(I) == IF I = {} THEN 0 ELSE SetMin(I)

find_image(tag, pool) ==
    FirstIndex({i \in 1..Len(pool) : MatchV2(tag, pool[i])})

find_image_by_tag(tag, pool) ==
    FirstIndex({i \in 1..Len(pool) : MatchV1(Strip(tag), pool[i])})

Resolve(gen, tag, pool) ==
    IF gen = "v2" THEN find_image(tag, pool) ELSE find_image_by_tag(tag, pool)


(***************************************************************************)
(* Text measurement and wrapping                                           *)
(***************************************************************************)
\* glyph advance in thousandths of the font size: Hangul and the markers
\* are full width, everything else (letters, digits, dots, blanks) half
FullWidth == {"K", "JE", "JANG", "MARK", "MARK1"}
GlyphEm(c) == IF c \in FullWidth THEN 1000 ELSE 500

\* c.stringWidth(s, font, size), size in points, result in hundredths
RECURSIVE stringWidth(_, _)
stringWidth(s, size) ==
    IF s = <<>> THEN 0
    ELSE (GlyphEm(Head(s)) * size) \div 10 + stringWidth(Tail(s), size)

\* a loop body that loses the character that overflows the line
WrapStepDrop(st, c, size, w) ==
    IF stringWidth(Append(st.line, c), size) <= w
    THEN [st EXCEPT !.line = Append(@, c)]
    ELSE [line |-> <<>>,
          out |-> IF st.line # <<>> THEN Append(st.out, st.line) ELSE st.out]

\* a loop body that measures the line before the character is added
WrapStepLate(st, c, size, w) ==
    IF stringWidth(st.line, size) <= w
    THEN [st EXCEPT !.line = Append(@, c)]
    ELSE [line |-> <<c>>,
          out |-> IF st.line # <<>> THEN Append(st.out, st.line) ELSE st.out]

\* a loop body with a strict comparison
WrapStepStrict(st, c, size, w) ==
    IF stringWidth(Append(st.line, c), size) < w
    THEN [st EXCEPT !.line = Append(@, c)]
    ELSE [line |-> <<c>>,
          out |-> IF st.line # <<>> THEN Append(st.out, st.line) ELSE st.out]

\* pdf_generator_v2.py wrap_text, the body of "for char in paragraph":
\* st.line is the current line, st.out the lines committed so far
WrapStep(st, c, size, w) ==
    IF stringWidth(Append(st.line, c), size) <= w
    THEN [st EXCEPT !.line = Append(@, c)]
    ELSE [line |-> <<c>>,
          out |-> IF st.line # <<>> THEN Append(st.out, st.line) ELSE st.out]

\* pdf_generator.py create_pdf, the body of "for char in text" in the
\* subtitle and body branches: strict comparison, and the current line is
\* committed even when it is empty
WrapStepInline(st, c, size, w) ==
    IF stringWidth(Append(st.line, c), size) < w
    THEN [st EXCEPT !.line = Append(@, c)]
    ELSE [line |-> <<c>>, out |-> Append(st.out, st.line)]

\* the character loop of either wrapper over p[lo..hi], in order
RECURSIVE WrapFold(_, _, _, _, _, _, _)
WrapFold(gen, st, p, lo, hi, size, w) ==
    IF Evaluated(st) /\ lo > hi THEN st
    ELSE IF lo = hi
         THEN (IF gen = "v2" THEN WrapStep(st, p[lo], size, w)
               ELSE WrapStepInline(st, p[lo], size, w))
    ELSE LET mid == (lo + hi) \div 2
         IN WrapFold(gen, WrapFold(gen, st, p, lo, mid, size, w),
                     p, mid + 1, hi, size, w)

\* the loop and the final "if line: lines.append(line)"
WrapParagraph(gen, p, size, w) ==
    LET st == WrapFold(gen, [line |-> <<>>, out |-> <<>>], p, 1, Len(p), size, w)
    IN IF st.line # <<>> THEN Append(st.out, st.line) ELSE st.out

RECURSIVE WrapParagraphs(_, _, _)
WrapParagraphs(ps, size, w) ==
    IF ps = <<>> THEN <<>>
    ELSE (IF Strip(Head(ps)) = <<>> THEN << <<>> >>
          ELSE WrapParagraph("v2", Head(ps), size, w))
         \o WrapParagraphs(Tail(ps), size, w)

wrap_text(s, size, w) == WrapParagraphs(SplitLines(s), size, w)

wrap_inline(s, size, w) == WrapParagraph("v1", s, size, w)

Wrap(gen, s, size, w) ==
    IF gen = "v2" THEN wrap_text(s, size, w) ELSE wrap_inline(s, size, w)

(***************************************************************************)
(* Page geometry and type sizes, in hundredths of a point (font sizes in   *)
(* points).  Names without prefix are pdf_generator_v2.py's module         *)
(* constants, names with V1_ are create_pdf's locals in pdf_generator.py.  *)
(***************************************************************************)
PAGE_WIDTH == 59528
PAGE_HEIGHT == 84189
MARGIN_TOP == 7087
MARGIN_BOTTOM == 7087
MARGIN_LEFT == 7087
MARGIN_RIGHT == 7087
SUBTITLE_SIZE == 25
BODY_SIZE == 17
BODY_LINE_HEIGHT == 2040
SUBTITLE_LINE_HEIGHT == 3000
TEXT_WIDTH == PAGE_WIDTH - MARGIN_LEFT - MARGIN_RIGHT

V1_LINE_HEIGHT == 2800
V1_MARGIN_TOP == 4252
V1_MARGIN_BOTTOM == 4252
V1_MARGIN_LEFT == 7087
V1_MARGIN_RIGHT == 7087
V1_MAX_WIDTH == PAGE_WIDTH - V1_MARGIN_LEFT - V1_MARGIN_RIGHT

MarginBottom(gen) == IF gen = "v2" THEN MARGIN_BOTTOM ELSE V1_MARGIN_BOTTOM
MarginTop(gen) == IF gen = "v2" THEN MARGIN_TOP ELSE V1_MARGIN_TOP

(***************************************************************************)
(* Image scaling: scale = min(max_w / img_w, max_h / img_h, 1) applied to  *)
(* both sides.  img_w, img_h are pixels; the result is in hundredths of a  *)
(* point, rounded down.                                                    *)
(***************************************************************************)
\* a scaling that forgets the cap at 1
ScaleNoCap(img_w, img_h, max_w, max_h) ==
    IF max_w * img_h <= max_h * img_w
    THEN [w |-> max_w, h |-> (img_h * max_w) \div img_w]
    ELSE [w |-> (img_w * max_h) \div img_h, h |-> max_h]

ScaleImage(img_w, img_h, max_w, max_h) ==
    IF max_w >= 100 * img_w /\ max_h >= 100 * img_h
    THEN [w |-> 100 * img_w, h |-> 100 * img_h]
    ELSE IF max_w * img_h <= max_h * img_w
         THEN [w |-> max_w, h |-> (img_h * max_w) \div img_w]
         ELSE [w |-> (img_w * max_h) \div img_h, h |-> max_h]

\* max_img_width, max_img_height of create_full_pdf
MaxImgWidthV2 == (TEXT_WIDTH * 9) \div 10
MaxImgHeightV2 == (PAGE_HEIGHT * 4) \div 10
\* the limits in create_pdf's min(MAX_WIDTH / img_w, (height * 0.5) / img_h, 1)
MaxImgWidthV1 == V1_MAX_WIDTH
MaxImgHeightV1 == (PAGE_HEIGHT * 5) \div 10

MaxImgWidth(gen) == IF gen = "v2" THEN MaxImgWidthV2 ELSE MaxImgWidthV1
MaxImgHeight(gen) == IF gen = "v2" THEN MaxImgHeightV2 ELSE MaxImgHeightV1


(***************************************************************************)
(* Content patterns                                                        *)
(***************************************************************************)
ImgOpen == "{{IMG:"
ImgClose == "}}"
DigitChars == {"0", "1", "2", "3", "4", "5", "6", "7", "8", "9"}

\* IMG_TAG_PATTERN.search(line): where the leftmost marker opens, 0 if none.
\* A marker is ImgOpen, one or more characters other than ImgClose, ImgClose.
ImgStart(line) ==
    FirstIndex({i \in 1..Len(line) :
        /\ line[i] = ImgOpen
        /\ i + 1 <= Len(line) /\ line[i + 1] # ImgClose
        /\ \E j \in (i + 2)..Len(line) : line[j] = ImgClose})

has_img_tag(line) == ImgStart(line) # 0

\* match.group(1)
ImgTag(line) ==
    LET i == ImgStart(line)
        j == SetMin({k \in (i + 2)..Len(line) : line[k] = ImgClose})
    IN SubSeq(line, i + 1, j - 1)

\* re.match(r'^\d+\.', line)
IsNumbered(line) ==
    \E k \in 1..(Len(line) - 1) :
        /\ \A i \in 1..k : line[i] \in DigitChars
        /\ line[k + 1] = "."

\* create_full_pdf's is_subtitle flag
IsSubtitleV2(line) ==
    IsNumbered(line) \/ (line # <<>> /\ line[1] = "MARK")

\* create_pdf's is_subtitle
is_subtitle(t) == t # <<>> /\ t[1] \in {"MARK", "MARK1"}

\* create_pdf's is_chapter_title
is_chapter_title(t) ==
    /\ t # <<>> /\ t[1] = "JE"
    /\ \E i \in 1..Min2(10, Len(t)) : t[i] = "JANG"

\* text.split(maxsplit=1): the first word and the rest
TitleParts(t) ==
    LET W == {i \in 1..Len(t) : t[i] \in WhiteSpace} IN
    IF W = {} THEN [main |-> t, sub |-> <<>>]
    ELSE [main |-> SubSeq(t, 1, SetMin(W) - 1),
          sub |-> LStrip(SubSeq(t, SetMin(W), Len(t)))]

\* the fixed table chapter_titles of create_full_pdf, .get(ch_num, "")
DigitOf == <<"1", "2", "3", "4", "5", "6", "7", "8", "9">>
chapter_titles(n) ==
    IF n \in 1..9 THEN <<"chapter_titles", DigitOf[n]>>
    ELSE IF n \in 10..15 THEN <<"chapter_titles", "1", DigitOf[n - 9]>>
    ELSE <<>>

(***************************************************************************)
(* classify_images (pdf_generator.py): a name is a sequence of characters  *)
(* in which the words the classifier looks for are single tokens.          *)
(***************************************************************************)
HasToken(name, toks) == \E i \in 1..Len(name) : name[i] \in toks

ImageClass(name) ==
    IF HasToken(name, {"cover"}) THEN "cover"
    ELSE IF HasToken(name, {"chapter"}) THEN "chapter_bg"
    ELSE IF HasToken(name, {"bg", "page"}) THEN "page_bg"
    ELSE IF HasToken(name, {"toc"}) THEN "toc"
    ELSE IF HasToken(name, {"guide"}) THEN "guide"
    ELSE "tables"

\* a classifier whose last class takes every name
IsAnyImage(name) == TRUE

IsTableImage(name) == ImageClass(name) = "tables"
IsTocImage(name) == ImageClass(name) = "toc"
IsGuideImage(name) == ImageClass(name) = "guide"

classify_images(images) ==
    [cover |-> \E i \in 1..Len(images) : ImageClass(images[i]) = "cover",
     page_bg |-> \E i \in 1..Len(images) : ImageClass(images[i]) = "page_bg",
     chapter_bg |-> \E i \in 1..Len(images) : ImageClass(images[i]) = "chapter_bg",
     toc |-> SelectSeq(images, IsTocImage),
     guide |-> SelectSeq(images, IsGuideImage),
     tables |-> SelectSeq(images, IsTableImage)]


(***************************************************************************)
(* An assembly.  doc holds the locals of one call of create_full_pdf       *)
(* (gen = "v2") or create_pdf (gen = "v1"), the canvas, and a record of    *)
(* what the call was given and what it drew:                               *)
(*   at, inch    position in the function; inch: inside a chapter's lines  *)
(*   pool, bad   the images in enumeration order; the asset (if any) whose *)
(*               bytes fail in Image.open ("open") or in drawImage ("draw")*)
(*   ch, seen    key of the current chapter, ids of its lines read so far  *)
(*   y, page_num, used, first_item      the locals of the same names       *)
(*   shown       number of c.showPage() calls                              *)
(*   page, pages the page being drawn and the finished pages: the kinds of *)
(*               content on each and the footer number drawn on it (0:     *)
(*               none)                                                     *)
(*   placed      the images drawn for placeholders, in order               *)
(*   asked       the placeholders processed: tag, asset resolved, chapter  *)
(*   last, skip  the drawing operations of the last step, and why its      *)
(*               placeholder (if any) drew nothing                         *)
(*   title       the two strings of the last chapter title page            *)
(***************************************************************************)
BlankPage == [has |-> {}, foot |-> 0]
NoName == <<>>

\* an assembly that begins with every asset already marked as used
NewDocUsed(gen, pool, bad) ==
    [gen |-> gen, at |-> "cover", inch |-> FALSE, pool |-> pool, bad |-> bad,
     ch |-> 0, seen |-> <<>>, y |-> 0, page_num |-> 0, shown |-> 0,
     used |-> {pool[i] : i \in DOMAIN pool}, first_item |-> FALSE,
     page |-> BlankPage, pages |-> <<>>,
     placed |-> <<>>, asked |-> {}, last |-> <<>>, skip |-> "",
     title |-> [main |-> <<>>, sub |-> <<>>]]

NewDoc(gen, pool, bad) ==
    [gen |-> gen, at |-> "cover", inch |-> FALSE, pool |-> pool, bad |-> bad,
     ch |-> 0, seen |-> <<>>, y |-> 0, page_num |-> 0, shown |-> 0,
     used |-> {}, first_item |-> FALSE, page |-> BlankPage, pages |-> <<>>,
     placed |-> <<>>, asked |-> {}, last |-> <<>>, skip |-> "",
     title |-> [main |-> <<>>, sub |-> <<>>]]

Status(d, name) == IF d.bad.name = name THEN d.bad.how ELSE "ok"

\* one drawing operation: kind, line number or date, image name, the y it
\* was drawn at, y after the placement, 1-based position of the page
Op(d, k, n, img, at, after) ==
    [k |-> k, n |-> n, img |-> img, y |-> at, after |-> after,
     p |-> Len(d.pages) + 1]

Begin(d) == [d EXCEPT !.last = <<>>, !.skip = ""]
Draw(d, kind) == [d EXCEPT !.page.has = @ \cup {kind}]
Log(d, op) == [d EXCEPT !.last = Append(@, op)]

\* c.showPage()
showPage(d) ==
    [d EXCEPT !.pages = Append(@, d.page), !.page = BlankPage,
              !.shown = @ + 1]

\* a placeholder that draws nothing but leaves a gap
SkipLeavesGap(d, why) == [d EXCEPT !.skip = why, !.y = @ - BODY_LINE_HEIGHT]

\* a placeholder that draws nothing: the if fails or the except clause
\* runs, and the loop continues with the next line
Skip(d, why) == [d EXCEPT !.skip = why]

\* used_images.add(...) forgotten
UseImageForget(used, name) == used

\* used_images.add(img_path) / used_images.add(img_name)
UseImage(used, name) == used \cup {name}

---------------------------------------------------------------------------
(***************************************************************************)
(* create_full_pdf (pdf_generator_v2.py)                                   *)
(***************************************************************************)
\* a new_page that skips a number
NewPageV2Skip(d) ==
    LET e == IF d.page_num > 0
             THEN showPage([d EXCEPT !.page.foot = d.page_num]) ELSE d
    IN [e EXCEPT !.page_num = @ + 2, !.y = PAGE_HEIGHT - MARGIN_TOP]

\* new_page(), with y = new_page()
NewPageV2(d) ==
    LET e == IF d.page_num > 0
             THEN showPage([d EXCEPT !.page.foot = d.page_num]) ELSE d
    IN [e EXCEPT !.page_num = @ + 1, !.y = PAGE_HEIGHT - MARGIN_TOP]

CoverV2(d, date) ==
    LET e == NewPageV2(Begin(d)) IN
    [Log(Draw(e, "cover"), Op(e, "cover", date, NoName, 0, 0))
        EXCEPT !.at = "toc"]

\* one entry of the table of contents: "for ch_num in range(1, 16)"
TocEntryV2(d) ==
    LET e == [d EXCEPT !.page.has = @ \cup {"toc"}, !.y = @ - 2500] IN
    IF e.y < MARGIN_BOTTOM + 5000 THEN NewPageV2(e) ELSE e

RECURSIVE TocLoopV2(_, _)
TocLoopV2(d, ch_num) ==
    IF ch_num > 15 THEN d ELSE TocLoopV2(TocEntryV2(d), ch_num + 1)

TocV2(d) ==
    LET e == NewPageV2(Begin(d))
        f == [Draw(e, "toc") EXCEPT !.y = e.y - 5000]
    IN [TocLoopV2(f, 1) EXCEPT !.at = "body"]

\* a chapter head that starts the content on the title page
ChapterV2OnePage(d, ch_num) ==
    LET e == NewPageV2(Begin(d))
        f == [Draw(e, "title") EXCEPT
                 !.title = [main |-> <<"JE", DigitOf[ch_num], "JANG">>,
                            sub |-> chapter_titles(ch_num)]]
        g == Log(f, Op(f, "title", ch_num, NoName, 0, 0))
    IN [g EXCEPT !.ch = ch_num, !.seen = <<>>, !.inch = TRUE]

ChapterV2(d, ch_num) ==
    LET e == NewPageV2(Begin(d))
        f == [Draw(e, "title") EXCEPT
                 !.title = [main |-> <<"JE", DigitOf[ch_num], "JANG">>,
                            sub |-> chapter_titles(ch_num)]]
        g == NewPageV2(Log(f, Op(f, "title", ch_num, NoName, 0, 0)))
    IN [g EXCEPT !.ch = ch_num, !.seen = <<>>, !.inch = TRUE]

EmptyLineV2(d) ==
    LET y1 == d.y - BODY_LINE_HEIGHT \div 2 IN
    [Log(d, Op(d, "space", 0, NoName, d.y, y1)) EXCEPT !.y = y1]

ImageV2(d, tag, size) ==
    LET i == find_image(tag, d.pool)
        img_path == IF i = 0 THEN NoName ELSE d.pool[i]
        d0 == [d EXCEPT !.asked = @ \cup
                  {[tag |-> tag, img |-> img_path, ch |-> d.ch]}]
    IN
    IF i = 0 THEN Skip(d0, "unresolved")
    ELSE IF img_path \in d.used THEN Skip(d0, "used")
    ELSE IF Status(d, img_path) = "open" THEN Skip(d0, "open_failed")
    ELSE LET new == ScaleImage(size.w, size.h, MaxImgWidthV2, MaxImgHeightV2)
             e == IF d0.y - new.h < MARGIN_BOTTOM + 5000
                  THEN NewPageV2(d0) ELSE d0
             img_y == e.y - new.h
             y1 == img_y - BODY_LINE_HEIGHT * 2
         IN IF Status(d, img_path) = "draw"
            THEN Skip(e, "draw_failed")
            ELSE [Log(Draw(e, "image"), Op(e, "image", 0, img_path, img_y, y1))
                    EXCEPT !.used = UseImage(@, img_path),
                           !.placed = Append(@,
                               [img |-> img_path, ch |-> e.ch,
                                p |-> Len(e.pages) + 1, y |-> img_y,
                                w |-> size.w, h |-> size.h,
                                new_w |-> new.w, new_h |-> new.h]),
                           !.y = y1]

RECURSIVE SubtitleLinesV2(_, _, _)
SubtitleLinesV2(d, i, n) ==
    IF i > n THEN d
    ELSE SubtitleLinesV2(
             [Log(Draw(d, "subtitle"),
                  Op(d, "subtitle", i, NoName, d.y, d.y - SUBTITLE_LINE_HEIGHT))
                EXCEPT !.y = d.y - SUBTITLE_LINE_HEIGHT],
             i + 1, n)

SubtitleV2(d, n) ==
    LET needed_height == n * SUBTITLE_LINE_HEIGHT + 2000
        e == IF d.y - needed_height < MARGIN_BOTTOM + 3000
             THEN NewPageV2(d) ELSE d
        f == SubtitleLinesV2([e EXCEPT !.y = e.y - 1500], 1, n)
    IN [f EXCEPT !.y = f.y - 1000]

\* a body loop that breaks the page one line height early
RECURSIVE BodyV2Early(_, _, _)
BodyV2Early(d, i, n) ==
    IF i > n THEN d
    ELSE LET e == IF d.y - BODY_LINE_HEIGHT < MARGIN_BOTTOM + 3000
                  THEN NewPageV2(d) ELSE d
         IN BodyV2Early([Log(Draw(e, "body"),
                             Op(e, "body", i, NoName, e.y, e.y - BODY_LINE_HEIGHT))
                           EXCEPT !.y = e.y - BODY_LINE_HEIGHT],
                        i + 1, n)

RECURSIVE BodyV2(_, _, _)
BodyV2(d, i, n) ==
    IF i > n THEN d
    ELSE LET e == IF d.y < MARGIN_BOTTOM + 3000 THEN NewPageV2(d) ELSE d
         IN BodyV2([Log(Draw(e, "body"),
                        Op(e, "body", i, NoName, e.y, e.y - BODY_LINE_HEIGHT))
                      EXCEPT !.y = e.y - BODY_LINE_HEIGHT],
                   i + 1, n)


---------------------------------------------------------------------------
(***************************************************************************)
(* create_pdf (pdf_generator.py)                                           *)
(***************************************************************************)
PageBgV1(d) ==
    IF classify_images(d.pool).page_bg THEN Draw(d, "page_bg") ELSE d

\* a new_page that closes the page without a footer
NewPageV1Unnumbered(d) ==
    LET e == showPage(d) IN
    [PageBgV1(e) EXCEPT !.page_num = d.page_num + 1,
                        !.y = PAGE_HEIGHT - V1_MARGIN_TOP - 4000]

\* the inner new_page(): footer, showPage, page_num += 1, background, y
NewPageV1(d) ==
    LET e == showPage([d EXCEPT !.page.foot = d.page_num]) IN
    [PageBgV1(e) EXCEPT !.page_num = d.page_num + 1,
                        !.y = PAGE_HEIGHT - V1_MARGIN_TOP - 4000]

CoverV1(d) ==
    LET e == IF classify_images(d.pool).cover
             THEN Draw(Begin(d), "cover_img") ELSE Begin(d)
    IN [showPage(Log(Draw(e, "cover"), Op(e, "cover", 0, NoName, 0, 0)))
          EXCEPT !.at = "toc"]

RECURSIVE TocLoopV1(_, _)
TocLoopV1(d, n) ==
    IF n = 0 THEN d ELSE TocLoopV1(showPage(Draw(d, "toc")), n - 1)

\* the loop over toc_images, then page_num = 2 + len(toc_images)
TocV1(d) ==
    LET toc_images == classify_images(d.pool).toc IN
    [TocLoopV1(Begin(d), Len(toc_images))
        EXCEPT !.page_num = 2 + Len(toc_images), !.at = "body"]

\* the head of one iteration of the loop over docx_contents
ChapterV1(d, doc_idx) ==
    [Begin(d) EXCEPT !.y = PAGE_HEIGHT - V1_MARGIN_TOP, !.first_item = TRUE,
                     !.ch = doc_idx, !.seen = <<>>, !.inch = TRUE]

\* a chapter-title branch that does not count the page it closes
TitleV1Uncounted(d, t) ==
    LET e == IF classify_images(d.pool).chapter_bg
             THEN Draw(d, "chapter_bg") ELSE d
        f == showPage(Log([Draw(e, "title") EXCEPT !.title = TitleParts(t)],
                          Op(e, "title", 0, NoName, 0, 0)))
    IN [PageBgV1(f) EXCEPT !.y = PAGE_HEIGHT - V1_MARGIN_TOP - 4000,
                           !.first_item = FALSE]

\* the chapter-title branch
TitleV1(d, t) ==
    LET e == IF classify_images(d.pool).chapter_bg
             THEN Draw(d, "chapter_bg") ELSE d
        f == showPage(Log([Draw(e, "title") EXCEPT !.title = TitleParts(t)],
                          Op(e, "title", 0, NoName, 0, 0)))
    IN [PageBgV1(f) EXCEPT !.page_num = d.page_num + 1,
                           !.y = PAGE_HEIGHT - V1_MARGIN_TOP - 4000,
                           !.first_item = FALSE]

\* the image-tag branch
ImageV1(d, t, size) ==
    LET table_images == classify_images(d.pool).tables
        tag == Strip(ImgTag(t))
        i == find_image_by_tag(ImgTag(t), table_images)
        img_name == IF i = 0 THEN NoName ELSE table_images[i]
        d0 == [d EXCEPT !.asked = @ \cup
                  {[tag |-> tag, img |-> img_name, ch |-> d.ch]}]
    IN
    IF i = 0 THEN Skip(d0, "unresolved")
    ELSE IF img_name \in d.used THEN Skip(d0, "used")
    ELSE IF Status(d, img_name) = "open" THEN Skip(d0, "open_failed")
    ELSE LET new == ScaleImage(size.w, size.h, MaxImgWidthV1, MaxImgHeightV1)
             e == IF d0.y - new.h < V1_MARGIN_BOTTOM + 4000
                  THEN NewPageV1(d0) ELSE d0
             img_y == e.y - new.h
             y1 == img_y - V1_LINE_HEIGHT * 2
         IN IF Status(d, img_name) = "draw"
            THEN Skip(e, "draw_failed")
            ELSE [Log(Draw(e, "image"), Op(e, "image", 0, img_name, img_y, y1))
                    EXCEPT !.used = UseImage(@, img_name),
                           !.placed = Append(@,
                               [img |-> img_name, ch |-> e.ch,
                                p |-> Len(e.pages) + 1, y |-> img_y,
                                w |-> size.w, h |-> size.h,
                                new_w |-> new.w, new_h |-> new.h]),
                           !.y = y1]

RECURSIVE SubtitleLinesV1(_, _, _)
SubtitleLinesV1(d, i, n) ==
    IF i > n THEN d
    ELSE SubtitleLinesV1(
             [Log(Draw(d, "subtitle"),
                  Op(d, "subtitle", i, NoName, d.y, d.y - (SUBTITLE_SIZE + 5) * 100))
                EXCEPT !.y = d.y - (SUBTITLE_SIZE + 5) * 100],
             i + 1, n)

\* the subtitle branch, for a subtitle wrapped to n lines
SubtitleV1(d, n) ==
    LET subtitle_height == n * (SUBTITLE_SIZE + 5) * 100 + V1_LINE_HEIGHT * 2
        e == IF d.y - subtitle_height < V1_MARGIN_BOTTOM + 4000
             THEN NewPageV1(d) ELSE d
        f == SubtitleLinesV1([e EXCEPT !.y = e.y - V1_LINE_HEIGHT * 2], 1, n)
    IN [f EXCEPT !.y = f.y - 1000]

RECURSIVE BodyLinesV1(_, _, _)
BodyLinesV1(d, i, n) ==
    IF i > n THEN d
    ELSE LET e == IF d.y < V1_MARGIN_BOTTOM + 4000 THEN NewPageV1(d) ELSE d
         IN BodyLinesV1([Log(Draw(e, "body"),
                             Op(e, "body", i, NoName, e.y, e.y - V1_LINE_HEIGHT))
                           EXCEPT !.y = e.y - V1_LINE_HEIGHT],
                        i + 1, n)

\* the body branch, for a paragraph wrapped to n lines
BodyV1(d, n) ==
    LET e == BodyLinesV1(d, 1, n) IN
    [e EXCEPT !.y = e.y - 500, !.first_item = FALSE]

\* the end of one iteration of the loop over docx_contents
EndChapterV1(d) ==
    [showPage([Begin(d) EXCEPT !.page.foot = d.page_num])
        EXCEPT !.page_num = d.page_num + 1, !.inch = FALSE]

RECURSIVE GuideLoopV1(_, _)
GuideLoopV1(d, n) ==
    IF n = 0 THEN d ELSE GuideLoopV1(showPage(Draw(d, "guide")), n - 1)

\* the loop over guide_images
GuideV1(d) ==
    [GuideLoopV1(Begin(d), Len(classify_images(d.pool).guide))
        EXCEPT !.at = "save"]

\* c.save(): a page that holds drawing operations is emitted
save(d) ==
    [d EXCEPT !.pages = IF d.page = BlankPage THEN @ ELSE Append(@, d.page),
              !.page = BlankPage, !.at = "done"]

\* sealing without the last footer
SaveV2NoFooter(d) == save([Begin(d) EXCEPT !.inch = FALSE])

\* the last footer and c.save() of create_full_pdf
SaveV2(d) == save([Begin(d) EXCEPT !.page.foot = d.page_num, !.inch = FALSE])

\* c.save() of create_pdf
SaveV1(d) == save(Begin(d))


---------------------------------------------------------------------------
(***************************************************************************)
(* Inputs of the assemblies                                                *)
(***************************************************************************)
MaxLines == 2            \* lines per chapter
MaxChapters == 2         \* chapters per document (keys 1..MaxChapters)
LongSubtitleGlyphs == 414
LongBodyGlyphs == 468

\* the lines a chapter is made of
TitleLine == <<"JE", "1", "JANG", " ", "K">>
ShortBody == <<"K", "K">>
LongSubtitle == <<"MARK">> \o Rep("K", LongSubtitleGlyphs)
ShortSubtitle == <<"MARK", "K">>

\* lines that match several patterns at once
TitleWithImage == <<"JE", "1", "JANG", " ", ImgOpen, "t", ImgClose>>
SubtitleWithImage == <<"MARK", ImgOpen, "t", ImgClose>>
TwoImages == <<ImgOpen, "u", ImgClose, ImgOpen, "t", ImgClose>>
TextWithImage == <<"K", ImgOpen, "t", ImgClose, "K">>
SeveralPatterns == {TitleWithImage, SubtitleWithImage, TwoImages, TextWithImage}

\* a placeholder whose tag is a word classify_images looks for
ClassTagLine == <<ImgOpen, "cover", ImgClose>>

Lines == <<
    <<>>,
    <<ImgOpen, "t", ImgClose>>,
    <<ImgOpen, "u", ImgClose>>,
    ShortSubtitle,
    LongSubtitle,
    <<"1", ".", "K">>,
    ShortBody,
    Rep("K", LongBodyGlyphs),
    TitleLine,
    <<"MARK1", "K">>,
    TitleWithImage,
    SubtitleWithImage,
    TwoImages,
    TextWithImage,
    ClassTagLine >>

\* the lines of the current chapter read so far
SeenLines(d) == [i \in 1..Len(d.seen) |-> Lines[d.seen[i]]]

\* the lines of a chapter's raw text: the pieces content.split('\n') gives
\* create_full_pdf, the paragraphs of the docx file read for create_pdf
LineIds(gen) ==
    {i \in 1..Len(Lines) : Lines[i] \notin SeveralPatterns \cup {ClassTagLine}}

\* the lines of the assemblies that mix the patterns
MixedIds ==
    {i \in 1..Len(Lines) :
        Lines[i] \in SeveralPatterns
                        \cup {TitleLine, ShortSubtitle, ShortBody, ClassTagLine}}

\* number of lines the wrapper returns for each line, per generator and size
WrappedSubtitleV2 ==
    [i \in 1..Len(Lines) |->
        Len(wrap_text(Strip(Lines[i]), SUBTITLE_SIZE, TEXT_WIDTH))]
WrappedBodyV2 ==
    [i \in 1..Len(Lines) |->
        Len(wrap_text(Strip(Lines[i]), BODY_SIZE, TEXT_WIDTH))]
WrappedSubtitleV1 ==
    [i \in 1..Len(Lines) |->
        Len(wrap_inline(Strip(Lines[i]), SUBTITLE_SIZE, V1_MAX_WIDTH))]
WrappedBodyV1 ==
    [i \in 1..Len(Lines) |->
        Len(wrap_inline(Strip(Lines[i]), BODY_SIZE, V1_MAX_WIDTH))]

AssetA == <<"t", ".", "p">>
AssetB == <<"u", "t", ".", "p">>
RichPool ==
    << <<"cover", ".", "p">>, <<"chapter", ".", "p">>, <<"page", "_", "bg">>,
       <<"toc", ".", "p">>, AssetB, AssetA, <<"guide", ".", "p">> >>

Pools(gen) ==
    {<<>>, <<AssetA, AssetB>>, <<AssetB, AssetA>>}
        \cup (IF gen = "v1" THEN {RichPool} ELSE {})

NoBad == [name |-> NoName, how |-> "ok"]
BadChoices(pool) ==
    {NoBad} \cup
    (IF pool = <<>> THEN {}
     ELSE {[name |-> AssetA, how |-> h] : h \in {"open", "draw"}})

\* native pixel sizes Image.open may report
ImageSizes ==
    {[w |-> 1, h |-> 1], [w |-> 2000, h |-> 350], [w |-> 350, h |-> 2000]}

SizesFor(id) ==
    IF Lines[id] \in SeveralPatterns \cup {ClassTagLine}
    THEN {[w |-> 2000, h |-> 350]}
    ELSE IF has_img_tag(Lines[id]) THEN ImageSizes ELSE {[w |-> 1, h |-> 1]}

\* days on which the report may be generated
Dates == {1, 2}

Docs ==
    UNION {UNION {{NewDoc(gen, pool, bad) : bad \in BadChoices(pool)} :
                     pool \in Pools(gen)} : gen \in {"v2", "v1"}}

---------------------------------------------------------------------------
(***************************************************************************)
(* One line of a chapter                                                   *)
(***************************************************************************)
\* create_full_pdf, the body of the loop "for line in lines"
LineV2(d, id, size) ==
    LET line == Strip(Lines[id])
        d0 == [Begin(d) EXCEPT !.seen = Append(@, id)]
    IN IF line = <<>> THEN EmptyLineV2(d0)
       ELSE IF has_img_tag(line) THEN ImageV2(d0, ImgTag(line), size)
       ELSE IF IsSubtitleV2(line) THEN SubtitleV2(d0, WrappedSubtitleV2[id])
       ELSE BodyV2(d0, 1, WrappedBodyV2[id])

\* create_pdf, the body of the loop "while i < len(content)", for the item
\* read_docx made of one paragraph of the file (none if it is blank)
LineV1(d, id, size) ==
    LET content == read_docx(<<Lines[id]>>)
        d0 == [Begin(d) EXCEPT !.seen = Append(@, id)]
    IN IF content = <<>> THEN d0
       ELSE LET t == content[1] IN
            IF is_chapter_title(t) /\ d.first_item THEN TitleV1(d0, t)
            ELSE IF has_img_tag(t) THEN ImageV1(d0, t, size)
            ELSE IF is_subtitle(t) THEN SubtitleV1(d0, WrappedSubtitleV1[id])
            ELSE BodyV1(d0, WrappedBodyV1[id])

StepCover(d, date) == IF d.gen = "v2" THEN CoverV2(d, date) ELSE CoverV1(d)
StepToc(d) == IF d.gen = "v2" THEN TocV2(d) ELSE TocV1(d)
StepChapter(d, k) == IF d.gen = "v2" THEN ChapterV2(d, k) ELSE ChapterV1(d, k)
StepLine(d, id, size) ==
    IF d.gen = "v2" THEN LineV2(d, id, size) ELSE LineV1(d, id, size)
StepSave(d) == IF d.gen = "v2" THEN SaveV2(d) ELSE SaveV1(d)

\* the chapter keys that may come next: sorted(chapters.keys()) in
\* create_full_pdf, the next list index in create_pdf
NextKeys(d) ==
    IF d.gen = "v2" THEN (d.ch + 1)..MaxChapters
    ELSE IF d.inch THEN {} ELSE {d.ch + 1} \cap (1..MaxChapters)

CanSave(d) == IF d.gen = "v2" THEN d.at = "body" ELSE d.at = "save"


---------------------------------------------------------------------------
(***************************************************************************)
(* Spec: one assembly, the chapter text read line by line                  *)
(***************************************************************************)
IdleDoc == NewDoc("v2", <<>>, NoBad)
envVars ==
    <<docx_paths, docx_contents, chapters, ch_nums, fonts, batch, executor, threads>>
EnvIdle ==
    /\ docx_paths = <<>> /\ docx_contents = <<>>
    /\ chapters = <<>> /\ ch_nums = <<>> /\ fonts = <<>>
    /\ batch = <<>> /\ executor = <<>> /\ threads = <<>>

fnVars == <<tag_name, images_dict, found, text, max_width, lines, envVars>>
FnIdle ==
    /\ tag_name = <<>> /\ images_dict = <<>> /\ found = 0
    /\ text = <<>> /\ max_width = 0 /\ lines = <<>>
    /\ EnvIdle

AssemblyPc == {"assemble", "assemble_mixed"}
LineChoices == IF pc = "assemble" THEN LineIds(doc.gen) ELSE MixedIds

Init ==
    /\ pc = "assemble"
    /\ doc \in Docs
    /\ doc2 = IdleDoc
    /\ FnIdle

Cover ==
    /\ pc \in AssemblyPc /\ doc.at = "cover"
    /\ \E date \in Dates : doc' = StepCover(doc, date)
    /\ UNCHANGED <<pc, doc2, fnVars>>

Toc ==
    /\ pc \in AssemblyPc /\ doc.at = "toc"
    /\ doc' = StepToc(doc)
    /\ UNCHANGED <<pc, doc2, fnVars>>

Chapter ==
    /\ pc \in AssemblyPc /\ doc.at = "body"
    /\ \E k \in NextKeys(doc) : doc' = StepChapter(doc, k)
    /\ UNCHANGED <<pc, doc2, fnVars>>

Line ==
    /\ pc \in AssemblyPc /\ doc.at = "body" /\ doc.inch
    /\ Len(doc.seen) < MaxLines
    /\ \E id \in LineChoices : \E size \in SizesFor(id) :
          doc' = StepLine(doc, id, size)
    /\ UNCHANGED <<pc, doc2, fnVars>>

EndChapter ==
    /\ pc \in AssemblyPc /\ doc.gen = "v1" /\ doc.at = "body" /\ doc.inch
    /\ doc' = EndChapterV1(doc)
    /\ UNCHANGED <<pc, doc2, fnVars>>

Guide ==
    /\ pc \in AssemblyPc /\ doc.gen = "v1" /\ doc.at = "body" /\ ~doc.inch
    /\ doc' = GuideV1(doc)
    /\ UNCHANGED <<pc, doc2, fnVars>>

Save ==
    /\ pc \in AssemblyPc /\ CanSave(doc)
    /\ doc' = StepSave(doc)
    /\ UNCHANGED <<pc, doc2, fnVars>>

Next == Cover \/ Toc \/ Chapter \/ Line \/ EndChapter \/ Guide \/ Save

Spec == Init /\ [][Next]_vars


---------------------------------------------------------------------------
(***************************************************************************)
(* SpecTwice: the same document assembled twice.  Both assemblies read the *)
(* same chapters and the same set of images; the order in which the pool   *)
(* is enumerated and the day of the run are each run's own.                *)
(***************************************************************************)
SameImages(p, q) ==
    Len(p) = Len(q) /\ {p[i] : i \in 1..Len(p)} = {q[i] : i \in 1..Len(q)}

InitTwice ==
    /\ pc = "assemble_twice"
    /\ doc \in {d \in Docs : d.bad = NoBad}
    /\ doc2 \in {d \in Docs : d.gen = doc.gen /\ d.bad = NoBad
                               /\ SameImages(d.pool, doc.pool)}
    /\ FnIdle

CoverTwice ==
    /\ pc = "assemble_twice" /\ doc.at = "cover"
    /\ \E date \in Dates : doc' = StepCover(doc, date)
    /\ \E date \in Dates : doc2' = StepCover(doc2, date)
    /\ UNCHANGED <<pc, fnVars>>

TocTwice ==
    /\ pc = "assemble_twice" /\ doc.at = "toc"
    /\ doc' = StepToc(doc) /\ doc2' = StepToc(doc2)
    /\ UNCHANGED <<pc, fnVars>>

ChapterTwice ==
    /\ pc = "assemble_twice" /\ doc.at = "body"
    /\ \E k \in NextKeys(doc) :
          doc' = StepChapter(doc, k) /\ doc2' = StepChapter(doc2, k)
    /\ UNCHANGED <<pc, fnVars>>

LineTwice ==
    /\ pc = "assemble_twice" /\ doc.at = "body" /\ doc.inch
    /\ Len(doc.seen) < MaxLines
    /\ \E id \in LineIds(doc.gen) : \E size \in SizesFor(id) :
          doc' = StepLine(doc, id, size) /\ doc2' = StepLine(doc2, id, size)
    /\ UNCHANGED <<pc, fnVars>>

EndChapterTwice ==
    /\ pc = "assemble_twice" /\ doc.gen = "v1" /\ doc.at = "body" /\ doc.inch
    /\ doc' = EndChapterV1(doc) /\ doc2' = EndChapterV1(doc2)
    /\ UNCHANGED <<pc, fnVars>>

GuideTwice ==
    /\ pc = "assemble_twice" /\ doc.gen = "v1" /\ doc.at = "body" /\ ~doc.inch
    /\ doc' = GuideV1(doc) /\ doc2' = GuideV1(doc2)
    /\ UNCHANGED <<pc, fnVars>>

SaveTwice ==
    /\ pc = "assemble_twice" /\ CanSave(doc)
    /\ doc' = StepSave(doc) /\ doc2' = StepSave(doc2)
    /\ UNCHANGED <<pc, fnVars>>

NextTwice ==
    CoverTwice \/ TocTwice \/ ChapterTwice \/ LineTwice \/ EndChapterTwice
        \/ GuideTwice \/ SaveTwice

SpecTwice == InitTwice /\ [][NextTwice]_vars

---------------------------------------------------------------------------
(***************************************************************************)
(* SpecResolve: one call of find_image or find_image_by_tag                *)
(***************************************************************************)
MaxPool == 2             \* assets in a pool

TablePng == <<"t", "a", "b", "l", "e", ".", "p", "n", "g">>
ResolveNames ==
    {TablePng, <<"0", "1", "_">> \o TablePng, <<"a">>, <<"a", ".", "p">>,
     <<"b", "a", ".", "p">>}
ResolveTags ==
    {<<"t", "a", "b", "l", "e">>, <<"a">>, <<"a", ".", "p">>, <<" ", "a">>,
     <<"z">>}

\* the enumerations of up to n distinct names
RECURSIVE Enumerations(_, _)
Enumerations(S, n) ==
    IF n = 0 THEN {<<>>}
    ELSE LET E == Enumerations(S, n - 1) IN
         E \cup {Append(e, x) : e \in E, x \in S}

ResolvePools ==
    {e \in Enumerations(ResolveNames, MaxPool) :
        \A i, j \in 1..Len(e) : i # j => e[i] # e[j]}

InitResolve ==
    /\ pc \in {"call_find_image", "call_find_image_by_tag"}
    /\ tag_name \in ResolveTags
    /\ images_dict \in ResolvePools
    /\ found = 0
    /\ text = <<>> /\ max_width = 0 /\ lines = <<>>
    /\ doc = IdleDoc /\ doc2 = IdleDoc
    /\ EnvIdle

FindImage ==
    /\ pc = "call_find_image"
    /\ found' = find_image(tag_name, images_dict)
    /\ pc' = "ret_find_image"
    /\ UNCHANGED <<tag_name, images_dict, text, max_width, lines, doc, doc2,
                   envVars>>

FindImageByTag ==
    /\ pc = "call_find_image_by_tag"
    /\ found' = find_image_by_tag(tag_name, images_dict)
    /\ pc' = "ret_find_image_by_tag"
    /\ UNCHANGED <<tag_name, images_dict, text, max_width, lines, doc, doc2,
                   envVars>>

NextResolve == FindImage \/ FindImageByTag

SpecResolve == InitResolve /\ [][NextResolve]_vars

---------------------------------------------------------------------------
(***************************************************************************)
(* SpecWrap: one call of wrap_text, or one run of create_pdf's wrapping    *)
(* loop, at the body size                                                  *)
(***************************************************************************)
MaxWrapLen == 4          \* characters in the string
MaxWrapUnits == 4        \* the width limit, in half-width glyphs

WrapChars == {"K", "a", " ", "\n"}

RECURSIVE Strings(_, _)
Strings(S, n) ==
    IF n = 0 THEN {<<>>}
    ELSE LET E == Strings(S, n - 1) IN E \cup {Append(e, x) : e \in E, x \in S}

HalfGlyph == stringWidth(<<"a">>, BODY_SIZE)

InitWrap ==
    /\ pc \in {"call_wrap_text", "call_wrap_inline"}
    /\ text \in Strings(WrapChars, MaxWrapLen)
    /\ max_width \in {k * HalfGlyph : k \in 0..MaxWrapUnits}
    /\ lines = <<>>
    /\ tag_name = <<>> /\ images_dict = <<>> /\ found = 0
    /\ doc = IdleDoc /\ doc2 = IdleDoc
    /\ EnvIdle

WrapText ==
    /\ pc = "call_wrap_text"
    /\ lines' = wrap_text(text, BODY_SIZE, max_width)
    /\ pc' = "ret_wrap_text"
    /\ UNCHANGED <<tag_name, images_dict, found, text, max_width, doc, doc2,
                   envVars>>

WrapInline ==
    /\ pc = "call_wrap_inline"
    /\ lines' = wrap_inline(text, BODY_SIZE, max_width)
    /\ pc' = "ret_wrap_inline"
    /\ UNCHANGED <<tag_name, images_dict, found, text, max_width, doc, doc2,
                   envVars>>

NextWrap == WrapText \/ WrapInline

SpecWrap == InitWrap /\ [][NextWrap]_vars


---------------------------------------------------------------------------
(***************************************************************************)
(* Properties                                                              *)
(***************************************************************************)
\* the images a placeholder of assembly d is resolved against
Candidates(d) ==
    IF d.gen = "v2" THEN d.pool ELSE classify_images(d.pool).tables

Matches(d, tag, name) ==
    IF d.gen = "v2" THEN MatchV2(tag, name) ELSE MatchV1(tag, name)

\* the placeholder the last step processed, if it processed one
LastLine(d) == IF d.seen = <<>> THEN <<>> ELSE Lines[d.seen[Len(d.seen)]]
LastTag(d) == Strip(ImgTag(Strip(LastLine(d))))

PlacedOf(d, name) == {i \in 1..Len(d.placed) : d.placed[i].img = name}

\* C1: in every state of an assembly, no asset has been drawn more than
\* once for placeholders, whatever tags and chapters asked for it.
C1_AtMostOnce ==
    \A i, j \in 1..Len(doc.placed) :
        doc.placed[i].img = doc.placed[j].img => i = j

\* a placeholder was just skipped because its asset, asked for under a
\* different tag in an earlier chapter, is already placed
C1_Witness ==
    /\ doc.skip = "used"
    /\ \E a, b \in doc.asked :
          /\ a.img = b.img /\ a.img # NoName
          /\ a.tag # b.tag /\ a.ch # b.ch
          /\ Cardinality(PlacedOf(doc, a.img)) = 1

\* C2: a placeholder whose asset is already used draws nothing, places no
\* other asset, and leaves cursor, page number and pages as they were; an
\* asset is placed in the first chapter, in chapter order, that asked for it.
C2_SecondSkipped ==
    /\ [][doc'.skip = "used" =>
            /\ doc'.last = <<>>
            /\ doc'.placed = doc.placed /\ doc'.used = doc.used
            /\ doc'.y = doc.y /\ doc'.page_num = doc.page_num
            /\ doc'.page = doc.page /\ doc'.pages = doc.pages
            /\ doc'.shown = doc.shown /\ doc'.at = doc.at]_vars
    /\ [](\A i \in 1..Len(doc.placed) : \A a \in doc.asked :
             a.img = doc.placed[i].img => doc.placed[i].ch <= a.ch)

\* the later chapter's placeholder was skipped although another asset of
\* the pool, not yet used, matches its tag
C2_Witness ==
    /\ doc.skip = "used"
    /\ \E i \in 1..Len(doc.placed) :
          /\ doc.placed[i].ch < doc.ch
          /\ [tag |-> LastTag(doc), img |-> doc.placed[i].img, ch |-> doc.ch]
                \in doc.asked
    /\ \E k \in 1..Len(Candidates(doc)) :
          /\ Matches(doc, LastTag(doc), Candidates(doc)[k])
          /\ Candidates(doc)[k] \notin doc.used


\* pages begun so far: none before the cover, then one more than the
\* showPage calls made
Begun(d) == IF d.at = "cover" THEN 0 ELSE d.shown + 1

\* C6 as stated: across the whole assembly page_num never decreases and,
\* once it is set, every step changes it by exactly the number of pages the
\* step begins.
C6_EveryBreakCounts ==
    [][/\ doc'.page_num >= doc.page_num
       /\ doc.page_num > 0
             => doc'.page_num - doc.page_num = Begun(doc') - Begun(doc)]_vars

\* C6: page_num never decreases.  In create_full_pdf, and in create_pdf
\* from the first chapter to the last, every step changes it by exactly the
\* number of pages the step begins.  create_pdf leaves it alone on the cover
\* and table-of-contents pages, sets it once to the number of the page then
\* begun, and leaves it alone again on the trailing guide pages.
C6_PageNumberSteps ==
    [][/\ doc'.page_num >= doc.page_num
       /\ (doc.gen = "v2" \/ (doc.at = "body" /\ doc'.at = "body"))
             => doc'.page_num - doc.page_num = Begun(doc') - Begun(doc)
       /\ (doc.gen = "v1" /\ doc.at = "cover") => doc'.page_num = doc.page_num
       /\ (doc.gen = "v1" /\ doc.at = "toc") => doc'.page_num = Begun(doc')
       /\ (doc.gen = "v1" /\ doc'.at \in {"save", "done"})
             => doc'.page_num = doc.page_num]_vars

\* create_pdf has ended guide pages after chapters that broke pages, and
\* its page number is behind the pages begun
C6_Witness ==
    /\ doc.gen = "v1" /\ doc.at = "save"
    /\ doc.page_num > 2 + Len(classify_images(doc.pool).toc) + doc.ch
    /\ doc.page_num < Begun(doc)

\* C7 as stated: after every step of the chapter content pass the cursor y
\* is within [marginBottom, pageHeight - marginTop].
C7_CursorBounds ==
    (doc.at = "body" /\ doc.inch) =>
        /\ doc.y >= MarginBottom(doc.gen)
        /\ doc.y <= PAGE_HEIGHT - MarginTop(doc.gen)

\* C9 as stated: a single chapter 1 made of a title line and a short
\* paragraph, with no images, gives cover, table of contents, title page
\* (subtitle from the title line) and one content page: 4 pages.
C9_ScenarioA ==
    (/\ doc.at = "done" /\ doc.pool = <<>> /\ doc.ch = 1
     /\ SeenLines(doc) = <<TitleLine, ShortBody>>) =>
        /\ Len(doc.pages) = 4
        /\ doc.pages[1].has = {"cover"}
        /\ doc.pages[2].has = {"toc"}
        /\ doc.pages[3].has = {"title"}
        /\ doc.pages[4].has = {"body"}
        /\ doc.title = TitleParts(TitleLine)

UniqueMatch(d, tag, name) ==
    {k \in 1..Len(Candidates(d)) : Matches(d, tag, Candidates(d)[k])}
        = {k \in 1..Len(Candidates(d)) : Candidates(d)[k] = name}

Rank(tag, name) ==
    IF tag = name THEN 1
    ELSE IF tag = splitext(name) THEN 2
    ELSE IF IsSubstring(tag, name) THEN 3
    ELSE IF EndsWith(splitext(name), tag) THEN 4
    ELSE 5

\* the tag a resolver call matches with: find_image_by_tag strips it
CallTag == IF pc = "ret_find_image_by_tag" THEN Strip(tag_name) ELSE tag_name

\* C3 as stated: the resolver returns an asset that satisfies the
\* highest-priority rule any asset of the pool satisfies (none if no asset
\* satisfies a rule), in whatever order the pool is enumerated.
C3_Priority ==
    pc \in {"ret_find_image", "ret_find_image_by_tag"} =>
        LET best == SetMin({5} \cup {Rank(CallTag, images_dict[i]) :
                                        i \in 1..Len(images_dict)})
        IN IF best = 5 THEN found = 0
           ELSE found # 0 /\ Rank(CallTag, images_dict[found]) = best

\* C4 as stated: the lines wrap_text returns, concatenated, are the string.
C4_RoundTrip ==
    pc = "ret_wrap_text" => Flatten(lines) = text

\* C4: the lines wrap_text returns, concatenated, are the paragraphs of the
\* string (its pieces between newlines) that are not whitespace-only, in
\* order and complete; so a string with no newline that is not
\* whitespace-only is reconstructed exactly, and so is the empty string.
C4_RoundTripParagraphs ==
    pc = "ret_wrap_text" =>
        /\ Flatten(lines) = Flatten(SelectSeq(SplitLines(text), NotBlank))
        /\ (NotBlank(text) /\ ~IsSubstring(<<"\n">>, text))
              => Flatten(lines) = text
        /\ text = <<>> => Flatten(lines) = text

\* a string with blanks and no newline was wrapped to several lines
C4_Witness ==
    /\ pc = "ret_wrap_text" /\ Len(lines) >= 3
    /\ IsSubstring(<<" ">>, text) /\ ~IsSubstring(<<"\n">>, text)
    /\ Flatten(lines) = text

\* C5: every line a wrapper returns is at most max_width wide, or is one
\* character that alone is wider than max_width.
C5_WidthBound ==
    pc \in {"ret_wrap_text", "ret_wrap_inline"} =>
        \A i \in 1..Len(lines) :
            \/ stringWidth(lines[i], BODY_SIZE) <= max_width
            \/ Len(lines[i]) = 1

\* a character wider than the limit got a line of its own, next to lines
\* that fit
C5_Witness ==
    /\ pc \in {"ret_wrap_text", "ret_wrap_inline"}
    /\ \E i, j \in 1..Len(lines) :
          /\ Len(lines[i]) = 1
          /\ stringWidth(lines[i], BODY_SIZE) > max_width
          /\ lines[j] # <<>>
          /\ stringWidth(lines[j], BODY_SIZE) = max_width

\* C8 as stated: two assemblies of the same chapters and the same images
\* draw the same things at the same places on the same pages, step by step,
\* and end with the same number of pages.
C8_Deterministic ==
    pc = "assemble_twice" =>
        /\ doc.last = doc2.last
        /\ doc.placed = doc2.placed
        /\ doc.y = doc2.y /\ doc.page_num = doc2.page_num
        /\ Len(doc.pages) = Len(doc2.pages)


---------------------------------------------------------------------------
(***************************************************************************)
(* SpecFiles: the order in which chapters reach the assembly.              *)
(* create_pdf_from_files sorts the paths as strings and reads each file;   *)
(* create_full_pdf sorts the integer keys of chapters.                     *)
(***************************************************************************)
MaxFiles == 3            \* files, or chapter keys, per call

ChapterNumbers == {1, 2, 10}

\* the characters of a path in code point order
CodeOrder == <<".", "/", "0", "1", "2", "3", "4", "5", "6", "7", "8", "9">>
Ord(c) == CHOOSE i \in 1..Len(CodeOrder) : CodeOrder[i] = c

\* a < b on Python strings
RECURSIVE StrLess(_, _)
StrLess(a, b) ==
    IF a = <<>> THEN b # <<>>
    ELSE IF b = <<>> THEN FALSE
    ELSE IF a[1] = b[1] THEN StrLess(Tail(a), Tail(b))
    ELSE Ord(a[1]) < Ord(b[1])

Digit(k) == IF k = 0 THEN "0" ELSE DigitOf[k]
Decimal(n) ==
    IF n < 10 THEN <<Digit(n)>> ELSE <<Digit(n \div 10), Digit(n % 10)>>

\* the file of chapter n, named by its number
DocxPath(n) == Decimal(n) \o <<".", "docx">>
ChapterOf(path) == CHOOSE n \in ChapterNumbers : DocxPath(n) = path

\* a file: its path and the paragraphs of the document stored there
DocxFiles ==
    {[path |-> DocxPath(n), paras |-> ps] :
        n \in ChapterNumbers, ps \in {<<ShortBody>>, << <<" ">> >>}}

FileLists ==
    {e \in Enumerations(DocxFiles, MaxFiles) :
        \A i, j \in 1..Len(e) : i # j => e[i].path # e[j].path}

KeyLists ==
    {e \in Enumerations(ChapterNumbers, MaxFiles) :
        \A i, j \in 1..Len(e) : i # j => e[i] # e[j]}

PathLess(f, g) == StrLess(f.path, g.path)
IntLess(a, b) == a < b

HasContent(item) == item.content # <<>>

\* the loop "for path in sorted(docx_paths)"
ReadSorted(paths) ==
    LET sorted == SortSeq(paths, PathLess)
        read == [i \in 1..Len(sorted) |->
                    [name |-> sorted[i].path,
                     content |-> read_docx(sorted[i].paras)]]
    IN SelectSeq(read, HasContent)

InitFiles ==
    /\ pc \in {"call_create_pdf_from_files", "call_sorted_keys"}
    /\ IF pc = "call_create_pdf_from_files"
       THEN docx_paths \in FileLists /\ chapters = <<>>
       ELSE docx_paths = <<>> /\ chapters \in KeyLists
    /\ docx_contents = <<>> /\ ch_nums = <<>> /\ fonts = <<>>
    /\ batch = <<>> /\ executor = <<>> /\ threads = <<>>
    /\ tag_name = <<>> /\ images_dict = <<>> /\ found = 0
    /\ text = <<>> /\ max_width = 0 /\ lines = <<>>
    /\ doc = IdleDoc /\ doc2 = IdleDoc

CreatePdfFromFiles ==
    /\ pc = "call_create_pdf_from_files"
    /\ docx_contents' = ReadSorted(docx_paths)
    /\ pc' = "ret_create_pdf_from_files"
    /\ UNCHANGED <<tag_name, images_dict, found, text, max_width, lines, doc,
                   doc2, docx_paths, chapters, ch_nums, fonts, batch, executor, threads>>

SortedKeys ==
    /\ pc = "call_sorted_keys"
    /\ ch_nums' = SortSeq(chapters, IntLess)
    /\ pc' = "ret_sorted_keys"
    /\ UNCHANGED <<tag_name, images_dict, found, text, max_width, lines, doc,
                   doc2, docx_paths, docx_contents, chapters, fonts, batch,
                   executor, threads>>

NextFiles == CreatePdfFromFiles \/ SortedKeys

SpecFiles == InitFiles /\ [][NextFiles]_vars

Ascending(nums) ==
    \A i, j \in 1..Len(nums) : i < j => nums[i] < nums[j]

\* C11 as stated: the chapters reach the assembly, and so appear in the
\* document, in ascending chapter index order, however many there are and
\* in whatever order the files or keys were supplied.
C11_AscendingChapters ==
    /\ pc = "ret_sorted_keys" => Ascending(ch_nums)
    /\ pc = "ret_create_pdf_from_files" =>
          Ascending([i \in 1..Len(docx_contents) |->
                        ChapterOf(docx_contents[i].name)])


ContentKinds == {"body", "subtitle", "image"}

\* C12 as stated: no page of the document, finished or being drawn, carries
\* both a chapter title and body content (paragraph line, subtitle, image).
C12_TitlePageAlone ==
    /\ \A i \in 1..Len(doc.pages) :
          "title" \in doc.pages[i].has => doc.pages[i].has \cap ContentKinds = {}
    /\ "title" \in doc.page.has => doc.page.has \cap ContentKinds = {}

\* the kinds of the drawing operations of the last step
LastKinds(d) == {d.last[i].k : i \in 1..Len(d.last)}

\* the step read one more line of the current chapter
ReadsLine(d, e) ==
    /\ d.at = "body" /\ d.inch /\ e.at = "body" /\ e.inch
    /\ Len(e.seen) = Len(d.seen) + 1

\* C13 as stated: a line read after an earlier block of the same chapter
\* (paragraph, subtitle or placeholder) never draws a chapter title page.
C13_TitleOnlyFirst ==
    [][(ReadsLine(doc, doc') /\ \E i \in 1..Len(doc.seen) :
                                    NotBlank(Lines[doc.seen[i]]))
          => "title" \notin LastKinds(doc')]_vars

\* C16 as stated: every empty line of a chapter's raw text moves the cursor
\* down by half a body line height as one spacing block, draws nothing, and
\* changes neither the page number nor the set of used images.
C16_EmptyLineSpacing ==
    [][(ReadsLine(doc, doc') /\ ~NotBlank(LastLine(doc')))
          => /\ doc'.y = doc.y - BODY_LINE_HEIGHT \div 2
             /\ LastKinds(doc') = {"space"} /\ Len(doc'.last) = 1
             /\ doc'.page_num = doc.page_num /\ doc'.used = doc.used
             /\ doc'.pages = doc.pages /\ doc'.page = doc.page
             /\ doc'.placed = doc.placed]_vars

\* C20 as stated: a placement that fails because the asset cannot be
\* decoded or drawn leaves the cursor y, the page number, the pages and the
\* set of used images as they were, and draws nothing.
C20_FailedPlacementNoEffect ==
    [][doc'.skip \in {"open_failed", "draw_failed"}
          => /\ doc'.y = doc.y /\ doc'.page_num = doc.page_num
             /\ doc'.used = doc.used /\ doc'.placed = doc.placed
             /\ doc'.pages = doc.pages /\ doc'.page = doc.page
             /\ doc'.last = <<>>]_vars


---------------------------------------------------------------------------
(***************************************************************************)
(* SpecMixed: one assembly of chapters whose lines match several patterns  *)
(* at once.  The assembly is sequential code over finite lists, so it      *)
(* keeps taking steps until it returns.                                    *)
(***************************************************************************)
MixedDocs ==
    {d \in Docs \cup {NewDoc("v2", RichPool, bad) : bad \in BadChoices(RichPool)} :
        d.pool \in {<<AssetA, AssetB>>, RichPool} /\ d.bad.how \in {"ok", "open"}}

InitMixed ==
    /\ pc = "assemble_mixed"
    /\ doc \in MixedDocs
    /\ doc2 = IdleDoc
    /\ FnIdle

SpecMixed == InitMixed /\ [][Next]_vars /\ WF_vars(Next)


\* no earlier line of the chapter holds anything but white space
FirstNonEmpty(d) == \A i \in 1..Len(d.seen) : ~NotBlank(Lines[d.seen[i]])

\* the kind the stated order of precedence gives a line, with each
\* generator's own patterns (create_full_pdf has no chapter-title pattern)
ExpectedKind(d, line) ==
    IF has_img_tag(line) THEN "image"
    ELSE IF d.gen = "v1" /\ is_chapter_title(line) /\ FirstNonEmpty(d)
         THEN "title"
    ELSE IF (IF d.gen = "v2" THEN IsSubtitleV2(line) ELSE is_subtitle(line))
         THEN "subtitle"
    ELSE "body"

\* C14 as stated: a line that is not blank is handled as the first kind that
\* matches in the order placeholder, chapter title (first non-empty line
\* only), subtitle, paragraph: a placeholder line draws nothing but (at
\* most) its image, every other line draws its kind and nothing else.
C14_Precedence ==
    [][(ReadsLine(doc, doc') /\ NotBlank(LastLine(doc')))
          => LET kind == ExpectedKind(doc, Strip(LastLine(doc'))) IN
             IF kind = "image" THEN LastKinds(doc') \subseteq {"image"}
             ELSE LastKinds(doc') = {kind}]_vars

\* the tag of the leftmost marker of a line, read off the line itself
FirstMarker(line) ==
    LET i == SetMin({k \in 1..Len(line) : line[k] = ImgOpen})
        j == SetMin({k \in (i + 1)..Len(line) : line[k] = ImgClose})
    IN Strip(SubSeq(line, i + 1, j - 1))

\* C15 as stated: a line containing a placeholder marker draws no subtitle
\* and no paragraph text (no wrapped subtitle or paragraph line, no
\* sub-title string on a title page), places at most one image, and the
\* image it places is the one resolved for its first marker.
C15_MarkerLineDrawsNoText ==
    [][(ReadsLine(doc, doc') /\ has_img_tag(Strip(LastLine(doc'))))
          => /\ LastKinds(doc') \cap {"subtitle", "body"} = {}
             /\ "title" \in LastKinds(doc') => doc'.title.sub = <<>>
             /\ Len(doc'.placed) <= Len(doc.placed) + 1
             /\ Len(doc'.placed) = Len(doc.placed) + 1
                  => \E a \in doc'.asked :
                        /\ a.tag = FirstMarker(LastLine(doc'))
                        /\ a.ch = doc'.ch
                        /\ a.img = doc'.placed[Len(doc'.placed)].img]_vars


---------------------------------------------------------------------------
(***************************************************************************)
(* SpecFonts: setup_fonts called several times in one process.  fonts      *)
(* holds the module globals FONT_NAME, FONT_BOLD (BOLD_NAME in             *)
(* pdf_generator.py) and FONT_LOADED, the files registered under the names *)
(* 'Korean' and 'KoreanBold', and a record of the last call: what          *)
(* fonts_dir was, the candidate list, the files on disk, how many          *)
(* candidates were probed, whether the call raised, and the last pair      *)
(* returned.                                                               *)
(***************************************************************************)
MaxFonts == 2            \* candidate paths of one call
MaxCalls == 3            \* calls of setup_fonts in one process

FontPaths == {"a.ttf", "b.ttf"}
\* a path is missing, exists but TTFont raises on it, or loads
FontStates == {"missing", "broken", "ok"}
Disks == [FontPaths -> FontStates]
NoPath == ""

\* what fonts_dir names: nothing was passed (create_full_pdf's module only;
\* create_pdf's takes the folder next to the script), a path that does not
\* exist, a directory, or an existing path that is not a directory
FontsDirKinds(gen) ==
    (IF gen = "v2" THEN {"none"} ELSE {}) \cup {"missing", "dir", "file"}

IsDistinct(s) == \A i, j \in 1..Len(s) : s[i] = s[j] => i = j

\* the .ttf files os.listdir reports, in the order it reports them, and the
\* system font paths that follow them
FontInputs(disk) ==
    {c \in [listing : Enumerations(FontPaths, MaxFonts),
            system_fonts : Enumerations(FontPaths, MaxFonts)] :
        /\ IsDistinct(c.listing \o c.system_fonts)
        /\ \A i \in 1..Len(c.listing) : disk[c.listing[i]] # "missing"}

NewFonts(gen) ==
    [gen |-> gen,
     FONT_NAME |-> IF gen = "v2" THEN "NanumBarunGothic" ELSE "Helvetica",
     FONT_BOLD |-> IF gen = "v2" THEN "NanumBarunGothicBold"
                   ELSE "Helvetica-Bold",
     FONT_LOADED |-> FALSE, Korean |-> NoPath, KoreanBold |-> NoPath,
     calls |-> 0, fonts_dir |-> "missing", font_paths |-> <<>>,
     disk |-> [p \in FontPaths |-> "missing"], probed |-> 0,
     raised |-> FALSE, ret |-> <<>>]

\* "for path in font_paths": the index of the first path that exists and
\* registers, 0 if the loop ends without one
RECURSIVE FontLoop(_, _, _)
FontLoop(font_paths, disk, i) ==
    IF i > Len(font_paths) THEN 0
    ELSE IF disk[font_paths[i]] = "ok" THEN i
    ELSE FontLoop(font_paths, disk, i + 1)

\* registration that does not set FONT_LOADED
RegisterNoFlag(f, path) ==
    [f EXCEPT !.Korean = path, !.KoreanBold = path,
              !.FONT_NAME = "Korean", !.FONT_BOLD = "KoreanBold"]

\* the two registerFont calls and the assignments to the globals
Register(f, path) ==
    [f EXCEPT !.Korean = path, !.KoreanBold = path,
              !.FONT_NAME = "Korean", !.FONT_BOLD = "KoreanBold",
              !.FONT_LOADED = TRUE]

\* the return statement after the loop
Fallback(f) ==
    IF f.gen = "v2" THEN <<"Helvetica", "Helvetica-Bold">>
    ELSE <<f.FONT_NAME, f.FONT_BOLD>>

setup_fonts(f, fonts_dir, c, disk) ==
    LET g == [f EXCEPT !.calls = @ + 1, !.fonts_dir = fonts_dir,
                       !.disk = disk, !.font_paths = <<>>, !.probed = 0,
                       !.raised = FALSE]
    IN
    IF f.FONT_LOADED THEN [g EXCEPT !.ret = <<f.FONT_NAME, f.FONT_BOLD>>]
    ELSE IF fonts_dir = "file" THEN [g EXCEPT !.raised = TRUE]
    ELSE LET font_paths ==
                 (IF fonts_dir = "dir" THEN c.listing ELSE <<>>)
                     \o c.system_fonts
             k == FontLoop(font_paths, disk, 1)
             h == [g EXCEPT !.font_paths = font_paths,
                            !.probed = IF k = 0 THEN Len(font_paths) ELSE k]
         IN IF k = 0 THEN [h EXCEPT !.ret = Fallback(h)]
            ELSE LET r == Register(h, font_paths[k]) IN
                 [r EXCEPT !.ret = <<r.FONT_NAME, r.FONT_BOLD>>]

fnVarsNoFonts ==
    <<tag_name, images_dict, found, text, max_width, lines,
      docx_paths, docx_contents, chapters, ch_nums, batch, executor, threads>>

InitFonts ==
    /\ pc = "setup_fonts"
    /\ fonts \in {NewFonts(gen) : gen \in {"v2", "v1"}}
    /\ docx_paths = <<>> /\ docx_contents = <<>>
    /\ chapters = <<>> /\ ch_nums = <<>>
    /\ batch = <<>> /\ executor = <<>> /\ threads = <<>>
    /\ tag_name = <<>> /\ images_dict = <<>> /\ found = 0
    /\ text = <<>> /\ max_width = 0 /\ lines = <<>>
    /\ doc = IdleDoc /\ doc2 = IdleDoc

\* a call of pdf_generator_v2.setup_fonts
SetupFontsV2 ==
    /\ pc = "setup_fonts" /\ fonts.gen = "v2" /\ fonts.calls < MaxCalls
    /\ \E fonts_dir \in FontsDirKinds("v2") : \E disk \in Disks :
          \E c \in FontInputs(disk) :
             fonts' = setup_fonts(fonts, fonts_dir, c, disk)
    /\ UNCHANGED <<pc, doc, doc2, fnVarsNoFonts>>

\* a call of pdf_generator.setup_fonts
SetupFontsV1 ==
    /\ pc = "setup_fonts" /\ fonts.gen = "v1" /\ fonts.calls < MaxCalls
    /\ \E fonts_dir \in FontsDirKinds("v1") : \E disk \in Disks :
          \E c \in FontInputs(disk) :
             fonts' = setup_fonts(fonts, fonts_dir, c, disk)
    /\ UNCHANGED <<pc, doc, doc2, fnVarsNoFonts>>

NextFonts == SetupFontsV2 \/ SetupFontsV1

SpecFonts == InitFonts /\ [][NextFonts]_vars

\* the step is one call of setup_fonts
CallsSetupFonts == pc = "setup_fonts" /\ fonts'.calls = fonts.calls + 1

Loadable(f) == {i \in 1..Len(f.font_paths) : f.disk[f.font_paths[i]] = "ok"}

\* C17 as stated: a call that probes returns without raising; if a
\* candidate exists and loads, both names are registered from the first
\* such candidate and the loaded pair is returned, no candidate after it
\* being probed; otherwise the built-in default pair is returned.
C17_FontResolution ==
    [][(CallsSetupFonts /\ ~fonts.FONT_LOADED)
          => /\ ~fonts'.raised
             /\ IF Loadable(fonts') # {}
                THEN /\ fonts'.ret = <<"Korean", "KoreanBold">>
                     /\ fonts'.Korean = fonts'.font_paths[SetMin(Loadable(fonts'))]
                     /\ fonts'.KoreanBold = fonts'.Korean
                     /\ fonts'.probed = SetMin(Loadable(fonts'))
                ELSE /\ fonts'.ret = <<"Helvetica", "Helvetica-Bold">>
                     /\ fonts'.Korean = fonts.Korean
                     /\ fonts'.KoreanBold = fonts.KoreanBold]_vars


LoadedPair == <<"Korean", "KoreanBold">>

\* C18 as stated: once a call has returned, every later call returns the
\* same pair without probing a candidate, whatever the first call returned
\* and whatever the files and fonts_dir are now; and a returned pair equals
\* the pair held in the globals.
C18_CachedAfterFirstCall ==
    [][CallsSetupFonts
          => /\ fonts.ret # <<>>
                  => /\ ~fonts'.raised /\ fonts'.ret = fonts.ret
                     /\ fonts'.probed = 0
             /\ ~fonts'.raised
                  => fonts'.ret = <<fonts'.FONT_NAME, fonts'.FONT_BOLD>>]_vars

\* C18 amended: once a call has loaded a font, every later call returns the
\* loaded pair without probing a candidate or registering anything,
\* whatever the files and fonts_dir are now; a call that falls back
\* leaves FONT_LOADED unset, so the next call probes again.  A returned
\* pair equals the pair held in the globals, except that the fallback of
\* create_full_pdf's module returns the built-in pair and leaves the
\* globals at their initial names.
C18_CachedAfterLoad ==
    [][CallsSetupFonts
          => /\ fonts.ret = LoadedPair
                  => /\ ~fonts'.raised /\ fonts'.ret = LoadedPair
                     /\ fonts'.probed = 0
                     /\ fonts'.Korean = fonts.Korean
                     /\ fonts'.KoreanBold = fonts.KoreanBold
             /\ (fonts.ret # LoadedPair /\ ~fonts'.raised)
                  => /\ fonts'.probed = (IF Loadable(fonts') = {}
                                         THEN Len(fonts'.font_paths)
                                         ELSE SetMin(Loadable(fonts')))
                     /\ fonts'.FONT_LOADED = (Loadable(fonts') # {})
             /\ ~fonts'.raised
                  => IF fonts'.gen = "v2" /\ ~fonts'.FONT_LOADED
                     THEN /\ fonts'.ret = <<"Helvetica", "Helvetica-Bold">>
                          /\ fonts'.FONT_NAME = "NanumBarunGothic"
                          /\ fonts'.FONT_BOLD = "NanumBarunGothicBold"
                     ELSE fonts'.ret = <<fonts'.FONT_NAME, fonts'.FONT_BOLD>>]_vars

\* a later call returned the cached pair although the file it was loaded
\* from is gone and another candidate would load
C18_Witness ==
    /\ pc = "setup_fonts" /\ fonts.calls >= 2 /\ fonts.FONT_LOADED
    /\ fonts.probed = 0 /\ fonts.ret = LoadedPair
    /\ fonts.disk[fonts.Korean] = "missing"
    /\ \E p \in FontPaths : fonts.disk[p] = "ok"


---------------------------------------------------------------------------
(***************************************************************************)
(* Sealing, under SpecMixed                                                *)
(***************************************************************************)
FinalPage(d) == d.pages[Len(d.pages)]

---------------------------------------------------------------------------
(***************************************************************************)
(* Documents with an empty body, under Spec                                *)
(***************************************************************************)
\* the chapter list was empty
NoChapters(d) == d.ch = 0

\* the last chapter had no content: its text was empty (the one empty line
\* ''.split('\n') gives create_full_pdf), or its content list was empty
\* (create_pdf)
LastChapterEmpty(d) ==
    /\ d.ch > 0
    /\ d.seen = (IF d.gen = "v2" THEN <<1>> ELSE <<>>)

\* position of the last page made before the guide pages
LastBodyPage(d) ==
    IF d.gen = "v2" THEN Len(d.pages)
    ELSE Len(d.pages) - Len(classify_images(d.pool).guide)

TextKinds == {"title", "subtitle", "body", "image"}

\* every footer number is the page's position; create_full_pdf numbers
\* every page
FootersMatch(d) ==
    \A p \in 1..Len(d.pages) :
        /\ d.pages[p].foot \in {0, p}
        /\ d.gen = "v2" => d.pages[p].foot = p

---------------------------------------------------------------------------
(***************************************************************************)
(* SpecBatch: process_batch over the rows of one sheet.  batch holds the   *)
(* sheet (whether it has the name column, and for each row the stage of    *)
(* process_customer at which an exception is raised, if any), the number   *)
(* of rows the loop has taken, the results list, and the exception that    *)
(* left process_batch, if any.                                             *)
(***************************************************************************)
MaxRows == 3

\* stages of process_customer inside its try block whose exception reaches
\* the outer except clause
FatalStages == {"birth", "calc", "images", "chapters", "pdf"}
\* stages wrapped in their own try block: a warning is printed
WarnStages == {"drive", "email"}
\* an API error inside generate_chapter: its except clause returns the
\* error message as the chapter's text
ApiStages == {"api"}
RowKinds == {"none"} \cup FatalStages \cup WarnStages \cup ApiStages

Sheets ==
    [has_name : BOOLEAN, rows : Enumerations(RowKinds, MaxRows)]

NewBatch(sheet) ==
    [has_name |-> sheet.has_name, rows |-> sheet.rows, idx |-> 0,
     results |-> <<>>, raised |-> "", saved |-> FALSE]

\* process_customer(row, ...): the result dictionary it returns, or the
\* exception that leaves it
process_customer(has_name, i, kind) ==
    IF ~has_name THEN [raised |-> "KeyError"]
    ELSE IF kind \in FatalStages
    THEN [raised |-> "", name |-> i, success |-> FALSE, pdf_path |-> FALSE,
          drive_link |-> FALSE, email_sent |-> FALSE, error |-> kind]
    ELSE [raised |-> "", name |-> i, success |-> TRUE, pdf_path |-> TRUE,
          drive_link |-> kind # "drive",
          email_sent |-> kind \notin WarnStages, error |-> "None"]

InitBatch ==
    /\ pc = "process_batch"
    /\ batch \in {NewBatch(sheet) : sheet \in Sheets}
    /\ executor = <<>> /\ threads = <<>> /\ fonts = <<>>
    /\ docx_paths = <<>> /\ docx_contents = <<>>
    /\ chapters = <<>> /\ ch_nums = <<>>
    /\ tag_name = <<>> /\ images_dict = <<>> /\ found = 0
    /\ text = <<>> /\ max_width = 0 /\ lines = <<>>
    /\ doc = IdleDoc /\ doc2 = IdleDoc

batchOthers ==
    <<tag_name, images_dict, found, text, max_width, lines, doc, doc2,
      docx_paths, docx_contents, chapters, ch_nums, fonts, executor, threads>>

\* one iteration of "for idx, row in df.iterrows()"
ProcessCustomer ==
    /\ pc = "process_batch" /\ batch.idx < Len(batch.rows)
    /\ LET i == batch.idx + 1
           result == process_customer(batch.has_name, i, batch.rows[i])
       IN IF result.raised # ""
          THEN /\ batch' = [batch EXCEPT !.idx = i, !.raised = result.raised]
               /\ pc' = "raised_process_batch"
          ELSE /\ batch' = [batch EXCEPT !.idx = i,
                                         !.results = Append(@, result)]
               /\ pc' = pc
    /\ UNCHANGED batchOthers

\* the summary after the loop (it divides by the number of rows), the
\* result file, and the return
Summary ==
    /\ pc = "process_batch" /\ batch.idx = Len(batch.rows)
    /\ IF Len(batch.rows) = 0
       THEN /\ batch' = [batch EXCEPT !.raised = "ZeroDivisionError"]
            /\ pc' = "raised_process_batch"
       ELSE /\ batch' = [batch EXCEPT !.saved = TRUE]
            /\ pc' = "ret_process_batch"
    /\ UNCHANGED batchOthers

NextBatch == ProcessCustomer \/ Summary

SpecBatch == InitBatch /\ [][NextBatch]_vars /\ WF_vars(NextBatch)

BatchEnded == pc \in {"ret_process_batch", "raised_process_batch"}

\* C22 as stated: whatever fails in a record, the loop goes on: every row
\* taken has its entry in the results, in input order, a row that failed
\* has a failed entry with its error and every other row a successful
\* one, and when process_batch ends every row has been taken.
C22_PerRecordIsolation ==
    /\ Len(batch.results) = batch.idx
    /\ \A i \in 1..Len(batch.results) :
          /\ batch.results[i].name = i
          /\ batch.results[i].success = (batch.rows[i] \notin FatalStages)
          /\ ~batch.results[i].success => batch.results[i].error = batch.rows[i]
    /\ BatchEnded => batch.idx = Len(batch.rows)


---------------------------------------------------------------------------
(***************************************************************************)
(* Placeholder resolution and the classes of assets, under SpecMixed       *)
(***************************************************************************)
\* the assets a placeholder resolved to, and those it placed
ResolvedAssets(d) == {a.img : a \in d.asked} \ {NoName}
PlacedAssets(d) == {d.placed[i].img : i \in 1..Len(d.placed)}

\* C23 as stated: whatever the tag, a placeholder resolves to and places
\* only assets whose name classify_images puts in the class of table
\* figures.
C23_OnlyTableFigures ==
    \A name \in ResolvedAssets(doc) \cup PlacedAssets(doc) :
        ImageClass(name) = "tables"

\* C23 amended: in create_pdf a placeholder resolves to and places only
\* assets classified as table figures; create_full_pdf does not classify,
\* there a placeholder resolves to any file of the image folder whose name
\* matches the tag.
C23_OnlyTableFiguresV1 ==
    \A name \in ResolvedAssets(doc) \cup PlacedAssets(doc) :
        /\ \E i \in 1..Len(doc.pool) : doc.pool[i] = name
        /\ doc.gen = "v1" => ImageClass(name) = "tables"

\* create_pdf was given a cover image and read a placeholder naming it,
\* which did not resolve
C23_Witness ==
    /\ pc = "assemble_mixed" /\ doc.gen = "v1" /\ doc.pool = RichPool
    /\ LastLine(doc) = ClassTagLine
    /\ [tag |-> <<"cover">>, img |-> NoName, ch |-> doc.ch] \in doc.asked


---------------------------------------------------------------------------
(***************************************************************************)
(* The wrapping rule, under SpecWrap                                       *)
(***************************************************************************)
\* the call wrapped one paragraph that is not blank
WrappedOneParagraph ==
    /\ pc \in {"ret_wrap_text", "ret_wrap_inline"}
    /\ ~IsSubstring(<<"\n">>, text) /\ Strip(text) # <<>>

LineWidth(i) == stringWidth(lines[i], BODY_SIZE)
\* width of line i with the first character of the next line added
WidthWithNext(i) == stringWidth(Append(lines[i], lines[i + 1][1]), BODY_SIZE)

\* C24 as stated: in both wrappers a character is appended exactly when the
\* line with it measures at most max_width: a line of several characters
\* is at most max_width wide, a committed line could not take the next
\* character, a paragraph at most max_width wide is one line, and no line
\* is empty.
C24_GreedyInclusive ==
    WrappedOneParagraph =>
        /\ \A i \in 1..Len(lines) :
              /\ lines[i] # <<>>
              /\ Len(lines[i]) > 1 => LineWidth(i) <= max_width
        /\ \A i \in 1..(Len(lines) - 1) : WidthWithNext(i) > max_width
        /\ stringWidth(text, BODY_SIZE) <= max_width => lines = <<text>>

\* C24 amended: wrap_text is greedy with an inclusive bound and commits no
\* empty line.  create_pdf's loops are greedy with an exclusive bound (a
\* character is appended exactly when the line with it measures less than
\* MAX_WIDTH, so a paragraph exactly MAX_WIDTH wide is broken), and commit
\* an empty first line when the first character alone does not fit.
C24_GreedyPerWrapper ==
    WrappedOneParagraph =>
        IF pc = "ret_wrap_text"
        THEN /\ \A i \in 1..Len(lines) :
                   /\ lines[i] # <<>>
                   /\ Len(lines[i]) > 1 => LineWidth(i) <= max_width
             /\ \A i \in 1..(Len(lines) - 1) : WidthWithNext(i) > max_width
             /\ stringWidth(text, BODY_SIZE) <= max_width => lines = <<text>>
        ELSE /\ \A i \in 1..Len(lines) :
                   /\ lines[i] = <<>>
                        => i = 1 /\ stringWidth(<<text[1]>>, BODY_SIZE) >= max_width
                   /\ Len(lines[i]) > 1 => LineWidth(i) < max_width
             /\ \A i \in 1..(Len(lines) - 1) : WidthWithNext(i) >= max_width
             /\ stringWidth(text, BODY_SIZE) < max_width => lines = <<text>>
             /\ (Len(text) > 1 /\ stringWidth(text, BODY_SIZE) = max_width)
                  => Len(lines) = 2

\* wrap_text kept a paragraph of several characters that is exactly
\* max_width wide on one line
C24_Witness ==
    /\ pc = "ret_wrap_text" /\ Len(text) > 2
    /\ ~IsSubstring(<<"\n">>, text) /\ Strip(text) # <<>>
    /\ stringWidth(text, BODY_SIZE) = max_width
    /\ lines = <<text>>


---------------------------------------------------------------------------
(***************************************************************************)
(* Page breaks before body lines, under Spec                               *)
(***************************************************************************)
LineHeight(gen) == IF gen = "v2" THEN BODY_LINE_HEIGHT ELSE V1_LINE_HEIGHT
\* the gap kept above the bottom margin for the footer
FooterGap(gen) == IF gen = "v2" THEN 3000 ELSE 4000
\* the cursor at the top of a page begun by a page break
TopOfPage(gen) ==
    IF gen = "v2" THEN PAGE_HEIGHT - MARGIN_TOP
    ELSE PAGE_HEIGHT - V1_MARGIN_TOP - 4000

\* the step drew the lines of one paragraph
DrawsBody == ReadsLine(doc, doc') /\ LastKinds(doc') = {"body"}

\* the cursor and the page before line k of the paragraph was placed
CursorBefore(k) == IF k = 1 THEN doc.y ELSE doc'.last[k - 1].after
PageBefore(k) == IF k = 1 THEN Len(doc.pages) + 1 ELSE doc'.last[k - 1].p

\* C25 as stated: before a body line the page is broken exactly when
\* y - lineHeight < marginBottom + gap; the line is drawn at y, and y
\* decreases by lineHeight; a line is drawn only with one line height of
\* room above the gap.
C25_BreakBeforeLine ==
    [][DrawsBody =>
         \A k \in 1..Len(doc'.last) :
            LET op == doc'.last[k]
                lh == LineHeight(doc.gen)
                low == MarginBottom(doc.gen) + FooterGap(doc.gen)
            IN /\ (op.p # PageBefore(k)) <=> (CursorBefore(k) - lh < low)
               /\ op.after = op.y - lh
               /\ op.y - lh >= low]_vars

\* C25 amended: before a body line the page is broken exactly when
\* y < marginBottom + gap; the line is drawn at y (the top of the new page
\* after a break) and y decreases by lineHeight; a line is drawn only at or
\* above the gap.
C25_BreakBelowGap ==
    [][DrawsBody =>
         \A k \in 1..Len(doc'.last) :
            LET op == doc'.last[k]
                lh == LineHeight(doc.gen)
                low == MarginBottom(doc.gen) + FooterGap(doc.gen)
            IN /\ (op.p # PageBefore(k)) <=> (CursorBefore(k) < low)
               /\ op.p \in {PageBefore(k), PageBefore(k) + 1}
               /\ op.y = (IF CursorBefore(k) < low THEN TopOfPage(doc.gen)
                          ELSE CursorBefore(k))
               /\ op.after = op.y - lh
               /\ op.y >= low
         /\ doc'.y = doc'.last[Len(doc'.last)].after
                        - (IF doc.gen = "v1" THEN 500 ELSE 0)]_vars

\* a body line was drawn less than one line height above the gap, and the
\* next one on a new page
C25_Witness ==
    /\ pc = "assemble" /\ LastKinds(doc) = {"body"}
    /\ \E k \in 1..(Len(doc.last) - 1) :
          /\ doc.last[k].y - LineHeight(doc.gen)
                < MarginBottom(doc.gen) + FooterGap(doc.gen)
          /\ doc.last[k + 1].p = doc.last[k].p + 1


---------------------------------------------------------------------------
(***************************************************************************)
(* What a page break does, under Spec                                      *)
(***************************************************************************)
\* the step's page breaks are all made by new_page(): every step of
\* create_full_pdf after the cover up to sealing, and in create_pdf the
\* lines of a chapter other than a chapter title
BreaksByNewPage ==
    /\ pc = "assemble" /\ doc' # doc /\ doc'.at = "body"
    /\ doc.gen = "v1" => (ReadsLine(doc, doc') /\ "title" \notin LastKinds(doc'))

PagesAdded == Len(doc'.pages) - Len(doc.pages)

\* what a block puts between the top of a new page and its first line
Lead(d, op) ==
    IF op.k = "body" THEN 0
    ELSE IF op.k = "subtitle"
         THEN (IF d.gen = "v2" THEN 1500 ELSE 2 * V1_LINE_HEIGHT)
    ELSE d.placed[Len(d.placed)].new_h

\* C26: a page break draws the closed page's own number as its footer,
\* finalizes it, adds one to page_num and resets y to the top of the new
\* page; it changes neither the set of used images nor the position in
\* the chapter, and the line or image that triggered it is drawn on the new
\* page, once.
C26_PageBreak ==
    [][BreaksByNewPage =>
         /\ SubSeq(doc'.pages, 1, Len(doc.pages)) = doc.pages
         /\ \A j \in 1..PagesAdded :
               doc'.pages[Len(doc.pages) + j].foot = doc.page_num + j - 1
         /\ doc'.page_num = doc.page_num + PagesAdded
         /\ doc.used \subseteq doc'.used
         /\ doc'.used \ doc.used
               \subseteq {doc'.last[k].img : k \in 1..Len(doc'.last)}
         /\ ReadsLine(doc, doc') =>
              /\ SubSeq(doc'.seen, 1, Len(doc.seen)) = doc.seen
              /\ \A k \in 1..Len(doc'.last) :
                    LET op == doc'.last[k] IN
                    /\ op.p \in {PageBefore(k), PageBefore(k) + 1}
                    /\ op.p # PageBefore(k)
                         => op.y = TopOfPage(doc.gen) - Lead(doc', op)
                    /\ op.k \in {"body", "subtitle"} => op.n = k
              /\ (PagesAdded > 0 /\ doc'.skip # "draw_failed")
                   => /\ doc'.last # <<>>
                      /\ doc'.last[Len(doc'.last)].p = Len(doc'.pages) + 1
              /\ (PagesAdded > 0 /\ doc'.skip = "draw_failed")
                   => doc'.y = TopOfPage(doc.gen)]_vars

\* C26 as stated: every step that closes pages, whichever code closes them,
\* gives each a footer, counts it in page_num, and draws the block that
\* triggered the break on the new page.
C26_EveryBreak ==
    [][(pc = "assemble" /\ PagesAdded > 0) =>
         /\ \A j \in 1..PagesAdded :
               doc'.pages[Len(doc.pages) + j].foot # 0
         /\ doc'.page_num = doc.page_num + PagesAdded
         /\ ReadsLine(doc, doc') => doc'.last # <<>>]_vars

\* create_pdf placed an image at the top of the page its break began
C26_Witness ==
    /\ pc = "assemble" /\ doc.gen = "v1" /\ LastKinds(doc) = {"image"}
    /\ doc.placed # <<>>
    /\ doc.last[1].y = TopOfPage("v1") - doc.placed[Len(doc.placed)].new_h
    /\ doc.pages[Len(doc.pages)].foot = doc.page_num - 1


---------------------------------------------------------------------------
(***************************************************************************)
(* The set of used images, under Spec                                      *)
(***************************************************************************)
\* the asset could be opened and drawn
Drawable(d, name) == Status(d, name) = "ok"

\* C27: used_images is empty when the assembly starts and only grows; once
\* a placeholder has been processed, the asset it resolved to is in the set
\* if it could be opened and drawn; every name in the set was resolved for
\* a placeholder of the same assembly, and was placed.
C27_UsedSetDrawn ==
    /\ doc.used = {}
    /\ [][doc.used \subseteq doc'.used]_vars
    /\ [](/\ \A a \in doc.asked :
               (a.img # NoName /\ Drawable(doc, a.img)) => a.img \in doc.used
          /\ doc.used \subseteq ResolvedAssets(doc)
          /\ doc.used = PlacedAssets(doc))

\* C27 as stated: once a placeholder has been processed, the asset it
\* resolved to is in the set.
C27_UsedSet ==
    \A a \in doc.asked : a.img # NoName => a.img \in doc.used

\* a second asset has just joined the set after a placeholder resolved to
\* an asset that could not be drawn
C27_Witness ==
    /\ pc = "assemble" /\ doc.skip = "" /\ LastKinds(doc) = {"image"}
    /\ doc.last[1].img \in doc.used
    /\ \E a \in doc.asked : a.img # NoName /\ ~Drawable(doc, a.img)


---------------------------------------------------------------------------
(***************************************************************************)
(* SpecRace: two threads call setup_fonts with the same arguments in one   *)
(* process.  The function takes no lock, so the threads interleave between *)
(* its statements.  fonts holds the module globals and the registry;       *)
(* threads holds, for each thread, its position in the function, the index *)
(* of the candidate it is at, how many times it registered 'Korean', and   *)
(* the pair it returned.                                                   *)
(***************************************************************************)
Tids == {"t1", "t2"}

NewThread == [at |-> "call", i |-> 0, regs |-> 0, ret |-> <<>>]

InitRace ==
    /\ pc = "race"
    /\ \E gen \in {"v2", "v1"} : \E disk \in Disks : \E c \in FontInputs(disk) :
          fonts = [NewFonts(gen) EXCEPT
                      !.fonts_dir = "dir", !.disk = disk,
                      !.font_paths = c.listing \o c.system_fonts]
    /\ threads = [t \in Tids |-> NewThread]
    /\ docx_paths = <<>> /\ docx_contents = <<>>
    /\ chapters = <<>> /\ ch_nums = <<>>
    /\ batch = <<>> /\ executor = <<>>
    /\ tag_name = <<>> /\ images_dict = <<>> /\ found = 0
    /\ text = <<>> /\ max_width = 0 /\ lines = <<>>
    /\ doc = IdleDoc /\ doc2 = IdleDoc

raceOthers ==
    <<pc, tag_name, images_dict, found, text, max_width, lines, doc, doc2,
      docx_paths, docx_contents, chapters, ch_nums, batch, executor>>

\* "if FONT_LOADED: return FONT_NAME, FONT_BOLD"
TestLoaded ==
    /\ pc = "race"
    /\ \E t \in Tids :
          /\ threads[t].at = "call"
          /\ threads' = [threads EXCEPT
                ![t] = IF fonts.FONT_LOADED
                       THEN [@ EXCEPT !.at = "done",
                                !.ret = <<fonts.FONT_NAME, fonts.FONT_BOLD>>]
                       ELSE [@ EXCEPT !.at = "loop", !.i = 1]]
    /\ UNCHANGED <<fonts, raceOthers>>

\* "for path in font_paths: if os.path.exists(path): try: TTFont(...)", and
\* the return after the loop
NextPath ==
    /\ pc = "race"
    /\ \E t \in Tids :
          /\ threads[t].at = "loop"
          /\ threads' = [threads EXCEPT
                ![t] = IF @.i > Len(fonts.font_paths)
                       THEN [@ EXCEPT !.at = "done", !.ret = Fallback(fonts)]
                       ELSE IF fonts.disk[fonts.font_paths[@.i]] = "ok"
                       THEN [@ EXCEPT !.at = "register"]
                       ELSE [@ EXCEPT !.i = @ + 1]]
    /\ UNCHANGED <<fonts, raceOthers>>

\* pdfmetrics.registerFont(TTFont('Korean', path))
RegisterKorean ==
    /\ pc = "race"
    /\ \E t \in Tids :
          /\ threads[t].at = "register"
          /\ fonts' = [fonts EXCEPT !.Korean = fonts.font_paths[threads[t].i]]
          /\ threads' = [threads EXCEPT ![t].at = "register_bold",
                                        ![t].regs = @ + 1]
    /\ UNCHANGED raceOthers

\* pdfmetrics.registerFont(TTFont('KoreanBold', path))
RegisterKoreanBold ==
    /\ pc = "race"
    /\ \E t \in Tids :
          /\ threads[t].at = "register_bold"
          /\ fonts' = [fonts EXCEPT
                          !.KoreanBold = fonts.font_paths[threads[t].i]]
          /\ threads' = [threads EXCEPT ![t].at = "set_name"]
    /\ UNCHANGED raceOthers

\* FONT_NAME = 'Korean'
SetFontName ==
    /\ pc = "race"
    /\ \E t \in Tids :
          /\ threads[t].at = "set_name"
          /\ fonts' = [fonts EXCEPT !.FONT_NAME = "Korean"]
          /\ threads' = [threads EXCEPT ![t].at = "set_bold"]
    /\ UNCHANGED raceOthers

\* FONT_BOLD = 'KoreanBold'  (BOLD_NAME in pdf_generator.py)
SetFontBold ==
    /\ pc = "race"
    /\ \E t \in Tids :
          /\ threads[t].at = "set_bold"
          /\ fonts' = [fonts EXCEPT !.FONT_BOLD = "KoreanBold"]
          /\ threads' = [threads EXCEPT ![t].at = "set_loaded"]
    /\ UNCHANGED raceOthers

\* FONT_LOADED = True
SetFontLoaded ==
    /\ pc = "race"
    /\ \E t \in Tids :
          /\ threads[t].at = "set_loaded"
          /\ fonts' = [fonts EXCEPT !.FONT_LOADED = TRUE]
          /\ threads' = [threads EXCEPT ![t].at = "return"]
    /\ UNCHANGED raceOthers

\* "return FONT_NAME, FONT_BOLD" inside the loop
ReturnLoaded ==
    /\ pc = "race"
    /\ \E t \in Tids :
          /\ threads[t].at = "return"
          /\ threads' = [threads EXCEPT
                ![t].at = "done",
                ![t].ret = <<fonts.FONT_NAME, fonts.FONT_BOLD>>]
    /\ UNCHANGED <<fonts, raceOthers>>

NextRace ==
    \/ TestLoaded \/ NextPath \/ RegisterKorean \/ RegisterKoreanBold
    \/ SetFontName \/ SetFontBold \/ SetFontLoaded \/ ReturnLoaded

SpecRace == InitRace /\ [][NextRace]_vars

DefaultPair(gen) ==
    IF gen = "v2" THEN <<"Helvetica", "Helvetica-Bold">>
    ELSE <<NewFonts(gen).FONT_NAME, NewFonts(gen).FONT_BOLD>>

\* a thread that tests FONT_LOADED now and finds it set reads both names as
\* the loaded pair
FlagAgreesWithNames ==
    fonts.FONT_LOADED => <<fonts.FONT_NAME, fonts.FONT_BOLD>> = LoadedPair

SamePair ==
    \A t, u \in Tids :
       (threads[t].at = "done" /\ threads[u].at = "done")
          => threads[t].ret = threads[u].ret

\* C28: whatever the interleaving of two threads calling setup_fonts at
\* once, the candidate font is registered at most once, no caller finds
\* the loaded flag set while the names are not the loaded pair, and both
\* callers obtain the same pair.
C28_IdempotentUnderRace ==
    pc = "race" =>
       /\ threads["t1"].regs + threads["t2"].regs <= 1
       /\ FlagAgreesWithNames
       /\ SamePair

\* what does hold under every interleaving
RaceKeeps ==
    pc = "race" =>
       /\ FlagAgreesWithNames
       /\ SamePair
       /\ \A t \in Tids : threads[t].at = "done" =>
             threads[t].ret \in {LoadedPair, DefaultPair(fonts.gen)}


---------------------------------------------------------------------------
(***************************************************************************)
(* SpecParallel: generate_all_chapters_parallel (batch_processor.py) and   *)
(* the call of create_full_pdf that follows it in process_customer.        *)
(* executor holds the pool size, each task's state (queued, running, or    *)
(* the kind of content generate_chapter returned), the futures already     *)
(* yielded by as_completed, the dict chapters in insertion order, the      *)
(* counter completed, the calls of the progress callback, the dict         *)
(* returned and the keys handed to create_full_pdf.  The code submits      *)
(* range(1, 16); the model submits 1..MaxTasks.                            *)
(***************************************************************************)
MaxTasks == 4            \* chapter tasks submitted (15 in the code)

total == MaxTasks
Workers == {1, 2, MaxTasks}

NewExecutor(max_workers) ==
    [max_workers |-> max_workers,
     tasks |-> [ch_num \in 1..total |-> "queued"],
     yielded |-> {}, chapters |-> <<>>, completed |-> 0,
     progress |-> <<>>, ret |-> <<>>, pdf |-> <<>>]

Running(x) == {t \in 1..total : x.tasks[t] = "running"}
Queued(x) == {t \in 1..total : x.tasks[t] = "queued"}
Finished(x) == {t \in 1..total : x.tasks[t] \in {"text", "error"}}

\* chapters[ch_num] = content
DictSet(d, k, v) ==
    IF \E i \in 1..Len(d) : d[i].k = k
    THEN [i \in 1..Len(d) |-> IF d[i].k = k THEN [k |-> k, v |-> v] ELSE d[i]]
    ELSE Append(d, [k |-> k, v |-> v])

DictKeys(d) == [i \in 1..Len(d) |-> d[i].k]
DictGet(d, k) == (CHOOSE i \in 1..Len(d) : d[i].k = k)

RECURSIVE sorted(_)
sorted(S) ==
    IF S = {} THEN <<>>
    ELSE <<SetMin(S)>> \o sorted(S \ {SetMin(S)})

\* a return of the dict as it was filled
InsertionOrder(d) == d

\* {k: chapters[k] for k in sorted(chapters.keys())}
SortedChapters(d) ==
    LET keys == sorted({d[i].k : i \in 1..Len(d)}) IN
    [i \in 1..Len(keys) |-> d[DictGet(d, keys[i])]]

\* update_progress(ch_num), the callback being given
update_progress(x, ch_num) ==
    LET c == x.completed + 1 IN
    [x EXCEPT !.completed = c,
              !.progress = Append(@, [completed |-> c, total |-> total,
                                      ch_num |-> ch_num])]

InitParallel ==
    /\ pc = "as_completed"
    /\ executor \in {NewExecutor(w) : w \in Workers}
    /\ threads = <<>> /\ batch = <<>> /\ fonts = <<>>
    /\ docx_paths = <<>> /\ docx_contents = <<>>
    /\ chapters = <<>> /\ ch_nums = <<>>
    /\ tag_name = <<>> /\ images_dict = <<>> /\ found = 0
    /\ text = <<>> /\ max_width = 0 /\ lines = <<>>
    /\ doc = IdleDoc /\ doc2 = IdleDoc

parallelOthers ==
    <<tag_name, images_dict, found, text, max_width, lines, doc, doc2,
      docx_paths, docx_contents, chapters, ch_nums, fonts, batch, threads>>

\* a worker of the pool takes the next submitted task from the queue
StartTask ==
    /\ pc = "as_completed"
    /\ Queued(executor) # {}
    /\ Cardinality(Running(executor)) < executor.max_workers
    /\ executor' = [executor EXCEPT
                       !.tasks[SetMin(Queued(executor))] = "running"]
    /\ UNCHANGED <<pc, parallelOthers>>

\* generate_chapter returns the text, or the error text when the API call
\* raised
FinishTask ==
    /\ pc = "as_completed"
    /\ \E t \in Running(executor) : \E content \in {"text", "error"} :
          executor' = [executor EXCEPT !.tasks[t] = content]
    /\ UNCHANGED <<pc, parallelOthers>>

\* one iteration of "for future in as_completed(futures)"
Collect ==
    /\ pc = "as_completed"
    /\ \E ch_num \in Finished(executor) \ executor.yielded :
          executor' = update_progress(
              [executor EXCEPT
                  !.yielded = @ \cup {ch_num},
                  !.chapters = DictSet(@, ch_num, executor.tasks[ch_num])],
              ch_num)
    /\ UNCHANGED parallelOthers
    /\ UNCHANGED pc

\* the loop has yielded every future; the with block ends and the dict is
\* returned
ReturnChapters ==
    /\ pc = "as_completed"
    /\ executor.yielded = 1..total
    /\ executor' = [executor EXCEPT !.ret = SortedChapters(executor.chapters)]
    /\ pc' = "ret_generate_all_chapters_parallel"
    /\ UNCHANGED parallelOthers

\* process_customer: create_full_pdf(chapters=chapters, ...)
CallCreateFullPdf ==
    /\ pc = "ret_generate_all_chapters_parallel"
    /\ executor' = [executor EXCEPT !.pdf = DictKeys(executor.ret)]
    /\ pc' = "create_full_pdf"
    /\ UNCHANGED parallelOthers

NextParallel ==
    \/ StartTask \/ FinishTask \/ Collect \/ ReturnChapters
    \/ CallCreateFullPdf

SpecParallel == InitParallel /\ [][NextParallel]_vars

ParallelPc ==
    {"as_completed", "ret_generate_all_chapters_parallel", "create_full_pdf"}

\* C29: whatever the order in which the chapter tasks complete, and
\* whichever of them fail, generate_all_chapters_parallel returns only
\* after all have finished, with exactly the chapters 1..total in ascending
\* key order, each with what its task returned; the progress callback has
\* then been invoked exactly total times, with completed counts 1..total in
\* order; and create_full_pdf is not started before that return.
C29_ParallelChapters ==
    pc \in ParallelPc =>
       /\ \A i \in 1..Len(executor.progress) :
             /\ executor.progress[i].completed = i
             /\ executor.progress[i].total = total
       /\ Len(executor.progress) <= total
       /\ pc # "as_completed" =>
             /\ Finished(executor) = 1..total
             /\ DictKeys(executor.ret) = [i \in 1..total |-> i]
             /\ \A i \in 1..total : executor.ret[i].v = executor.tasks[i]
             /\ Len(executor.progress) = total
       /\ pc = "as_completed" => executor.pdf = <<>>
       /\ pc = "create_full_pdf" => executor.pdf = [i \in 1..total |-> i]

\* the function returned although a task failed and the tasks were
\* collected in an order other than ascending
C29_Witness ==
    /\ pc = "create_full_pdf"
    /\ \E t \in 1..total : executor.tasks[t] = "error"
    /\ DictKeys(executor.chapters) # [i \in 1..total |-> i]
    /\ DictKeys(executor.chapters)[1] = total


---------------------------------------------------------------------------
(***************************************************************************)
(* Footer numbers and page positions, under Spec                           *)
(***************************************************************************)
\* the pages create_pdf emits before the first chapter: the cover and one
\* page for each table-of-contents image
FrontPages(d) == 1 + Len(classify_images(d.pool).toc)

\* C30: in create_full_pdf every emitted page carries a footer number equal
\* to its 1-based position, drawn before the page is finalised, and the
\* page count reported at the end equals the number of pages emitted; in
\* create_pdf every footer number drawn equals the page's 1-based position,
\* counting the cover and the table-of-contents pages, footers are drawn
\* on chapter pages only, and the page that ends a chapter carries one.
C30_FooterIsPosition ==
    pc = "assemble" =>
       /\ \A p \in 1..Len(doc.pages) :
             IF doc.gen = "v2" THEN doc.pages[p].foot = p
             ELSE /\ doc.pages[p].foot \in {0, p}
                  /\ doc.pages[p].foot # 0
                       => /\ p > FrontPages(doc)
                          /\ doc.pages[p].has \cap {"cover", "toc", "guide"} = {}
       /\ doc.page.foot = 0
       /\ (doc.gen = "v2" /\ doc.at = "done") => doc.page_num = Len(doc.pages)
       /\ (doc.gen = "v2" /\ doc.at \notin {"cover", "done"})
             => doc.page_num = Len(doc.pages) + 1
       /\ (doc.gen = "v1" /\ doc.at = "body")
             => /\ doc.page_num = Len(doc.pages) + 1
                /\ (doc.ch > 0 /\ ~doc.inch)
                      => FinalPage(doc).foot = Len(doc.pages)

\* a sealed create_pdf document with table-of-contents pages and an
\* unnumbered chapter-title page followed by a numbered page
C30_Witness ==
    /\ pc = "assemble" /\ doc.gen = "v1" /\ doc.at = "done"
    /\ FrontPages(doc) > 1
    /\ \E q, p \in 1..Len(doc.pages) :
          /\ q < p
          /\ "title" \in doc.pages[q].has /\ doc.pages[q].foot = 0
          /\ doc.pages[p].foot = p

=============================================================================
